---- MODULE Spec2Model ----
(***************************************************************************)
(* ip2cc: the prefix index (Patricia trie), its binary codec and the       *)
(* snapshot store, modelled from internal/index, internal/snapshot and     *)
(* internal/cli.                                                           *)
(*                                                                         *)
(* Byte slices are sequences of naturals.  Address widths (32 and 128 in   *)
(* the program) and the width of a byte in the bit-packing helpers are     *)
(* scaled down so that every prefix and every address can be enumerated.   *)
(***************************************************************************)
EXTENDS Integers, Sequences, FiniteSets, TLC

VARIABLES
    trie,      \* the index.Trie under construction: [Root, IsIPv6, Count]
    err,       \* what the last Trie.Insert call returned: NoError or ErrMismatch
    stored,    \* history: key <<bits, len>> -> record of its most recent successful Insert
    replaced,  \* history: the last successful Insert overwrote a different record
    file,      \* the bytes of the index file written by saveTrie, or NoFile
    loaded,    \* the last loadTrie call: [req, res] or Nil
    fs,        \* snapshots/: date -> NoDir or the files of the date directory
    latest,    \* snapshots/latest: the symbolic link Link(date), or NoFile
    up,        \* the running `ip2cc update`: its position and locals, and in
               \* linkBefore what snapshots/latest was when the run started
    ret        \* what the last runUpdate or Manager call returned

trieVars == <<trie, err, stored, replaced>>

codecVars == <<file, loaded>>

storeVars == <<fs, latest, up, ret>>

vars == <<trieVars, codecVars, storeVars>>

----------------------------------------------------------------------------
(* Bounds *)

MaxBitsV4 == 2      \* width of an IPv4 address (32 in the program)
MaxBitsV6 == 3      \* width of an IPv6 address (128 in the program)
ByteBits == 2       \* bits per byte in bit packing (8 in the program)
MaxInserts == 2     \* successful Insert calls per trie
BufSize == 40       \* bytes bufio.Writer holds back before it writes to the file (4096)
MaxLines == 3       \* lines of the input of a batch
MaxBuilds == 2      \* runs of `ip2cc update` that get as far as CreateSnapshot
MaxConcurrency == 2 \* config.MaxConcurrency (8)
MaxCountries == 3   \* country codes of one run in the model of the downloads

----------------------------------------------------------------------------
(* Values *)

Nil == [nil |-> TRUE]

\* a path at which no file exists
NoFile == [nofile |-> TRUE]

NoError == "nil"
ErrMismatch == "IP version mismatch"

Pow2(n) == 2 ^ n

Min(a, b) == IF a < b THEN a ELSE b

\* ASCII codes of the two-letter country codes used as inputs
CC_US == <<85, 83>>
CC_AU == <<65, 85>>

maxBitsOf(isIPv6) == IF isIPv6 THEN MaxBitsV6 ELSE MaxBitsV4

\* number of bytes of an address: Addr.As4 / Addr.As16
addrLen(isIPv6) == (maxBitsOf(isIPv6) + ByteBits - 1) \div ByteBits

----------------------------------------------------------------------------
(* Bit helpers: internal/index trie.go *)

getBit(data, pos) ==
    LET byteIdx == pos \div ByteBits
        bitIdx  == (ByteBits - 1) - (pos % ByteBits)
    IN  IF byteIdx >= Len(data)
        THEN 0
        ELSE (data[byteIdx + 1] \div Pow2(bitIdx)) % 2

getBitFromSlice(data, pos) == getBit(data, pos)

RECURSIVE SumBits(_, _, _, _)
\* the value of result byte j after the loop of extractBits has or-ed in bits i..length-1
SumBits(data, start, length, i) ==
    IF i >= length \/ i >= ByteBits THEN 0
    ELSE getBit(data, start + i) * Pow2((ByteBits - 1) - (i % ByteBits))
         + SumBits(data, start, length, i + 1)

extractBits(data, start, length) ==
    IF length <= 0
    THEN <<>>
    ELSE [j \in 1..((length + ByteBits - 1) \div ByteBits) |->
            SumBits(data, start + (j - 1) * ByteBits, length - (j - 1) * ByteBits, 0)]

extractBitsFromSlice(data, start, length) == extractBits(data, start, length)

----------------------------------------------------------------------------
(* Trie: internal/index trie.go *)

EmptyNode == [Prefix |-> <<>>, PrefixLen |-> 0, Data |-> Nil, Children |-> <<Nil, Nil>>]

NewTrie(isIPv6) == [Root |-> EmptyNode, IsIPv6 |-> isIPv6, Count |-> 0]

\* node.Data = data: a record already at the node is overwritten
StoreDataKeepFirst(node, data) ==
    IF node.Data # Nil THEN node ELSE [node EXCEPT !.Data = data]

\* the assignment node.Data = data left out
StoreDataDropped(node, data) == node

StoreData(node, data) == [node EXCEPT !.Data = data]

\* the leaf whose edge is taken from the start of the inserted prefix
NewLeafFromStart(bits, from, length, data) ==
    [Prefix |-> extractBits(bits, 0, length), PrefixLen |-> length,
     Data |-> data, Children |-> <<Nil, Nil>>]

\* the leaf created for the bits [from, from+length) of the inserted prefix
NewLeaf(bits, from, length, data) ==
    [Prefix |-> extractBits(bits, from, length), PrefixLen |-> length,
     Data |-> data, Children |-> <<Nil, Nil>>]

\* length of the common prefix of the inserted bits at pos and the child's edge
RECURSIVE CommonLen(_, _, _, _, _)
CommonLen(bits, pos, childBits, maxCheck, i) ==
    IF i >= maxCheck THEN i
    ELSE IF getBit(bits, pos + i) # getBitFromSlice(childBits, i) THEN i
    ELSE CommonLen(bits, pos, childBits, maxCheck, i + 1)

SplitChildDropOld(child, bits, pos, prefixLen, commonLen, data) ==
    IF commonLen = prefixLen - pos
    THEN [Prefix |-> extractBits(bits, pos, commonLen), PrefixLen |-> commonLen,
          Data |-> data, Children |-> <<Nil, Nil>>]
    ELSE [Prefix |-> extractBits(bits, pos, commonLen), PrefixLen |-> commonLen,
          Data |-> Nil,
          Children |-> [[<<Nil, Nil>> EXCEPT ![getBitFromSlice(child.Prefix, commonLen) + 1] =
                            [child EXCEPT
                               !.Prefix = extractBitsFromSlice(child.Prefix, commonLen,
                                                               child.PrefixLen - commonLen),
                               !.PrefixLen = child.PrefixLen - commonLen]]
                        EXCEPT ![getBit(bits, pos + commonLen) + 1] =
                            NewLeaf(bits, pos + commonLen, prefixLen - pos - commonLen, data)]]

\* the split that leaves the old child its whole edge
SplitChildKeepEdge(child, bits, pos, prefixLen, commonLen, data) ==
    LET newParent == [Prefix |-> extractBits(bits, pos, commonLen),
                      PrefixLen |-> commonLen,
                      Data |-> Nil,
                      Children |-> [<<Nil, Nil>> EXCEPT
                                       ![getBitFromSlice(child.Prefix, commonLen) + 1] = child]]
    IN  IF commonLen = prefixLen - pos
        THEN StoreData(newParent, data)
        ELSE [newParent EXCEPT !.Children[getBit(bits, pos + commonLen) + 1] =
                 NewLeaf(bits, pos + commonLen, prefixLen - pos - commonLen, data)]

\* the split that never attaches the leaf of the inserted prefix
SplitChildNoLeaf(child, bits, pos, prefixLen, commonLen, data) ==
    LET newParent == [Prefix |-> extractBits(bits, pos, commonLen),
                      PrefixLen |-> commonLen,
                      Data |-> Nil,
                      Children |-> [<<Nil, Nil>> EXCEPT
                                       ![getBitFromSlice(child.Prefix, commonLen) + 1] =
                                           [child EXCEPT
                                              !.Prefix = extractBitsFromSlice(child.Prefix, commonLen,
                                                             child.PrefixLen - commonLen),
                                              !.PrefixLen = child.PrefixLen - commonLen]]]
    IN  IF commonLen = prefixLen - pos THEN StoreData(newParent, data) ELSE newParent

\* the node that replaces child when its edge is split after commonLen bits
SplitChild(child, bits, pos, prefixLen, commonLen, data) ==
    LET childBits    == child.Prefix
        childLen     == child.PrefixLen
        remainingLen == prefixLen - pos
        oldChildBit  == getBitFromSlice(childBits, commonLen)
        oldChild     == [child EXCEPT
                            !.Prefix = extractBitsFromSlice(childBits, commonLen, childLen - commonLen),
                            !.PrefixLen = childLen - commonLen]
        newParent    == [Prefix |-> extractBits(bits, pos, commonLen),
                         PrefixLen |-> commonLen,
                         Data |-> Nil,
                         Children |-> [<<Nil, Nil>> EXCEPT ![oldChildBit + 1] = oldChild]]
    IN  IF commonLen = remainingLen
        THEN StoreData(newParent, data)
        ELSE LET newLeafBit == getBit(bits, pos + commonLen)
             IN  [newParent EXCEPT !.Children[newLeafBit + 1] =
                     NewLeaf(bits, pos + commonLen, remainingLen - commonLen, data)]

RECURSIVE insertRecursive(_, _, _, _, _)
\* the subtree rooted at node after the insertion; the code mutates it in place
insertRecursive(node, bits, pos, prefixLen, data) ==
    IF pos = prefixLen
    THEN StoreData(node, data)
    ELSE
      LET bit   == getBit(bits, pos)
          child == node.Children[bit + 1]
      IN
      IF child = Nil
      THEN [node EXCEPT !.Children[bit + 1] = NewLeaf(bits, pos, prefixLen - pos, data)]
      ELSE
        LET childLen     == child.PrefixLen
            remainingLen == prefixLen - pos
            commonLen    == CommonLen(bits, pos, child.Prefix, Min(remainingLen, childLen), 0)
        IN
        IF commonLen = childLen
        THEN IF commonLen = remainingLen
             THEN [node EXCEPT !.Children[bit + 1] = StoreData(child, data)]
             ELSE [node EXCEPT !.Children[bit + 1] =
                      insertRecursive(child, bits, pos + childLen, prefixLen, data)]
        ELSE [node EXCEPT !.Children[bit + 1] =
                 SplitChild(child, bits, pos, prefixLen, commonLen, data)]

prefixToBits(prefix) == prefix.addr

addrToBits(ip) == ip.addr

InsertCountFirst(t, prefix, data) ==
    IF prefix.is6 # t.IsIPv6
    THEN [trie |-> [t EXCEPT !.Count = t.Count + 1], err |-> ErrMismatch]
    ELSE [trie |-> [t EXCEPT
                      !.Root = insertRecursive(t.Root, prefixToBits(prefix), 0, prefix.bits, data),
                      !.Count = t.Count + 1],
          err |-> NoError]

\* Trie.Insert: the trie after the call and the error it returns
Insert(t, prefix, data) ==
    IF prefix.is6 # t.IsIPv6
    THEN [trie |-> t, err |-> ErrMismatch]
    ELSE [trie |-> [t EXCEPT
                      !.Root = insertRecursive(t.Root, prefixToBits(prefix), 0, prefix.bits, data),
                      !.Count = t.Count + 1],
          err |-> NoError]

\* lastMatch after visiting node: a deeper record replaces a shallower one
BestMatchKeepFirst(node, lastMatch) ==
    IF lastMatch # Nil THEN lastMatch ELSE node.Data

BestMatch(node, lastMatch) ==
    IF node.Data # Nil THEN node.Data ELSE lastMatch

RECURSIVE lookupRecursive(_, _, _, _, _)
\* one iteration of the loop of lookupRecursive, lastMatch carried along
lookupRecursive(node, bits, pos, maxBits, lastMatch) ==
    IF node = Nil THEN lastMatch
    ELSE
    LET match == BestMatch(node, lastMatch)
    IN
    IF pos >= maxBits THEN match
    ELSE
      LET bit   == getBit(bits, pos)
          child == node.Children[bit + 1]
      IN
      IF child = Nil THEN match
      ELSE
        LET childLen == IF pos + child.PrefixLen > maxBits
                        THEN maxBits - pos ELSE child.PrefixLen
            matches  == \A i \in 0..(Min(childLen, child.PrefixLen) - 1) :
                            getBit(bits, pos + i) = getBitFromSlice(child.Prefix, i)
        IN
        IF ~matches THEN match
        ELSE lookupRecursive(child, bits, pos + child.PrefixLen, maxBits, match)

LookupAnyFamily(t, ip) ==
    lookupRecursive(t.Root, addrToBits(ip), 0, maxBitsOf(t.IsIPv6), Nil)

\* Trie.Lookup
Lookup(t, ip) ==
    IF ip.is6 # t.IsIPv6
    THEN Nil
    ELSE lookupRecursive(t.Root, addrToBits(ip), 0, maxBitsOf(t.IsIPv6), Nil)

----------------------------------------------------------------------------
(* Index codec: internal/index serialize.go *)

\* "IP2CCIDX"
Magic == <<73, 80, 50, 67, 67, 73, 68, 88>>

IndexFormatVersion == 1

FlagHasIPv4 == 1

FlagHasIPv6 == 2

NilMarker == 255

\* binary.Write / binary.Read, little endian
BE16(n) == <<(n \div 256) % 256, n % 256>>

LE16(n) == <<n % 256, (n \div 256) % 256>>

LE32(n) == <<n % 256, (n \div 256) % 256, (n \div 65536) % 256, (n \div 16777216) % 256>>

\* values written as uint64 are below 2^31 here: the high half is zero
LE64(n) == LE32(n) \o <<0, 0, 0, 0>>

ReadLE16(b) == b[1] + 256 * b[2]

ReadLE32(b) == b[1] + 256 * b[2] + 65536 * b[3] + 16777216 * b[4]

BoolByte(b) == IF b THEN <<1>> ELSE <<0>>

\* the header saveTrie writes for a family
HeaderBytes(isIPv6) ==
    Magic \o LE32(IndexFormatVersion)
          \o LE32(IF isIPv6 THEN FlagHasIPv6 ELSE FlagHasIPv4)
          \o LE64(0) \o LE64(0)

\* serializeNode: the edge bytes, padded with zeros or cut to the edge length
PrefixBytesOf(node) ==
    LET prefixBytes == (node.PrefixLen + ByteBits - 1) \div ByteBits
    IN  [j \in 1..prefixBytes |-> IF j <= Len(node.Prefix) THEN node.Prefix[j] ELSE 0]

\* serializeNode: the record of a node that has one
DataBytesOf(data) ==
    (IF Len(data.CountryCode) >= 2
     THEN <<data.CountryCode[1], data.CountryCode[2]>>
     ELSE <<0, 0>>)
    \o LE16(Len(data.PrefixStr)) \o data.PrefixStr

RECURSIVE serializeNode(_)
serializeNode(node) ==
    IF node = Nil THEN <<NilMarker>>
    ELSE <<node.PrefixLen % 256>>
         \o PrefixBytesOf(node)
         \o BoolByte(node.Data # Nil)
         \o (IF node.Data # Nil THEN DataBytesOf(node.Data) ELSE <<>>)
         \o BoolByte(node.Children[1] # Nil)
         \o BoolByte(node.Children[2] # Nil)
         \o (IF node.Children[1] # Nil THEN serializeNode(node.Children[1]) ELSE <<>>)
         \o (IF node.Children[2] # Nil THEN serializeNode(node.Children[2]) ELSE <<>>)

\* the bytes saveTrie has handed to its writer when it returns without error
saveTrieBytes(t, isIPv6) ==
    HeaderBytes(isIPv6) \o serializeNode(t.Root) \o LE32(t.Count)

ReadFail == [err |-> TRUE]

\* the n bytes after the first pos bytes of data
Bytes(data, pos, n) == SubSeq(data, pos + 1, pos + n)

\* deserializeNode: the record of a node whose has-data flag is set
ReadData(data, pos) ==
    IF pos + 4 > Len(data) THEN ReadFail
    ELSE LET prefixStrLen == ReadLE16(Bytes(data, pos + 2, 2))
         IN  IF pos + 4 + prefixStrLen > Len(data) THEN ReadFail
             ELSE [err |-> FALSE,
                   data |-> [CountryCode |-> Bytes(data, pos, 2),
                             PrefixStr |-> Bytes(data, pos + 4, prefixStrLen)],
                   pos |-> pos + 4 + prefixStrLen]

RECURSIVE deserializeNode(_, _)
\* deserializeNode on the reader positioned after pos bytes: the node and the new position
deserializeNode(data, pos) ==
    IF pos + 1 > Len(data) THEN ReadFail
    ELSE
    LET prefixLen == data[pos + 1]
    IN
    IF prefixLen = NilMarker THEN [err |-> FALSE, node |-> Nil, pos |-> pos + 1]
    ELSE
    LET prefixBytes == (prefixLen + ByteBits - 1) \div ByteBits
        p2          == pos + 1 + prefixBytes
    IN
    IF p2 + 1 > Len(data) THEN ReadFail
    ELSE
    LET hasData == data[p2 + 1] # 0
        d       == IF hasData THEN ReadData(data, p2 + 1)
                   ELSE [err |-> FALSE, data |-> Nil, pos |-> p2 + 1]
    IN
    IF d.err THEN ReadFail
    ELSE IF d.pos + 2 > Len(data) THEN ReadFail
    ELSE
    LET hasLeft  == data[d.pos + 1] # 0
        hasRight == data[d.pos + 2] # 0
        left     == IF hasLeft THEN deserializeNode(data, d.pos + 2)
                    ELSE [err |-> FALSE, node |-> Nil, pos |-> d.pos + 2]
    IN
    IF left.err THEN ReadFail
    ELSE
    LET right == IF hasRight THEN deserializeNode(data, left.pos)
                 ELSE [err |-> FALSE, node |-> Nil, pos |-> left.pos]
    IN
    IF right.err THEN ReadFail
    ELSE [err |-> FALSE,
          node |-> [Prefix |-> Bytes(data, pos + 1, prefixBytes),
                    PrefixLen |-> prefixLen,
                    Data |-> d.data,
                    Children |-> <<left.node, right.node>>],
          pos |-> right.pos]

ErrReadFile == "read file"
ErrReadHeader == "read header"
ErrInvalidMagic == "invalid magic"
ErrUnsupportedVersion == "unsupported index version"
ErrDeserialize == "deserialize nodes"
ErrReadCount == "read count"

LoadFailed(e) == [trie |-> Nil, err |-> e]

\* loadTrie with the two validations of the header exchanged
loadTrieVersionFirst(data, isIPv6) ==
    IF data = NoFile THEN LoadFailed(ErrReadFile)
    ELSE IF Len(data) < Len(HeaderBytes(isIPv6)) THEN LoadFailed(ErrReadHeader)
    ELSE IF ReadLE32(Bytes(data, 8, 4)) # IndexFormatVersion
         THEN LoadFailed(ErrUnsupportedVersion)
    ELSE IF Bytes(data, 0, 8) # Magic THEN LoadFailed(ErrInvalidMagic)
    ELSE
    LET root == deserializeNode(data, Len(HeaderBytes(isIPv6)))
    IN
    IF root.err THEN LoadFailed(ErrDeserialize)
    ELSE IF root.pos + 4 > Len(data) THEN LoadFailed(ErrReadCount)
    ELSE [trie |-> [Root |-> root.node, IsIPv6 |-> isIPv6,
                    Count |-> ReadLE32(Bytes(data, root.pos, 4))],
          err |-> NoError]

\* loadTrie that takes a missing count as zero
loadTrieCountOptional(data, isIPv6) ==
    IF data = NoFile THEN LoadFailed(ErrReadFile)
    ELSE IF Len(data) < Len(HeaderBytes(isIPv6)) THEN LoadFailed(ErrReadHeader)
    ELSE IF Bytes(data, 0, 8) # Magic THEN LoadFailed(ErrInvalidMagic)
    ELSE IF ReadLE32(Bytes(data, 8, 4)) # IndexFormatVersion
         THEN LoadFailed(ErrUnsupportedVersion)
    ELSE
    LET root == deserializeNode(data, Len(HeaderBytes(isIPv6)))
    IN
    IF root.err THEN LoadFailed(ErrDeserialize)
    ELSE [trie |-> [Root |-> root.node, IsIPv6 |-> isIPv6,
                    Count |-> IF root.pos + 4 > Len(data) THEN 0
                              ELSE ReadLE32(Bytes(data, root.pos, 4))],
          err |-> NoError]

\* loadTrie on a file with the bytes data (or no file) for the requested family
loadTrie(data, isIPv6) ==
    IF data = NoFile THEN LoadFailed(ErrReadFile)
    ELSE IF Len(data) < Len(HeaderBytes(isIPv6)) THEN LoadFailed(ErrReadHeader)
    ELSE IF Bytes(data, 0, 8) # Magic THEN LoadFailed(ErrInvalidMagic)
    ELSE IF ReadLE32(Bytes(data, 8, 4)) # IndexFormatVersion
         THEN LoadFailed(ErrUnsupportedVersion)
    ELSE
    LET root == deserializeNode(data, Len(HeaderBytes(isIPv6)))
    IN
    IF root.err THEN LoadFailed(ErrDeserialize)
    ELSE IF root.pos + 4 > Len(data) THEN LoadFailed(ErrReadCount)
    ELSE [trie |-> [Root |-> root.node, IsIPv6 |-> isIPv6,
                    Count |-> ReadLE32(Bytes(data, root.pos, 4))],
          err |-> NoError]

----------------------------------------------------------------------------
(* Inputs: netip.Addr and netip.Prefix values of both families *)

\* the bytes of the big-endian number n, nBytes long
RECURSIVE BytesOf(_, _)
BytesOf(n, nBytes) ==
    IF nBytes = 0 THEN <<>>
    ELSE Append(BytesOf(n \div Pow2(ByteBits), nBytes - 1), n % Pow2(ByteBits))

\* the address of a family whose leading len bits are the number v, the rest zero
AddrBytes(isIPv6, v, len) ==
    BytesOf(v * Pow2(addrLen(isIPv6) * ByteBits - len), addrLen(isIPv6))

Families == {FALSE, TRUE}

Addrs(isIPv6) ==
    {[is6 |-> isIPv6, addr |-> AddrBytes(isIPv6, v, maxBitsOf(isIPv6))] :
        v \in 0..(Pow2(maxBitsOf(isIPv6)) - 1)}

AllAddrs == Addrs(FALSE) \cup Addrs(TRUE)

\* masked prefixes of every length 0..family maximum
PrefixesOfLen(isIPv6, len) ==
    {[is6 |-> isIPv6, addr |-> AddrBytes(isIPv6, v, len), bits |-> len] :
        v \in 0..(Pow2(len) - 1)}

Prefixes(isIPv6) == UNION {PrefixesOfLen(isIPv6, len) : len \in 0..maxBitsOf(isIPv6)}

AllPrefixes == Prefixes(FALSE) \cup Prefixes(TRUE)

CountryCodes == {CC_US, CC_AU}

\* bit i (0-based, most significant first) of an address, read off its number
RECURSIVE ValueOf(_)
ValueOf(bytes) ==
    IF bytes = <<>> THEN 0
    ELSE ValueOf(SubSeq(bytes, 1, Len(bytes) - 1)) * Pow2(ByteBits) + bytes[Len(bytes)]

BitAt(bytes, i) == (ValueOf(bytes) \div Pow2(Len(bytes) * ByteBits - 1 - i)) % 2

\* ASCII codes of the characters of CIDR text
Dot == 46
Slash == 47
Colon == 58
Digit0 == 48

\* the separator of the address groups of a family: "." or ":"
SepOf(isIPv6) == IF isIPv6 THEN Colon ELSE Dot

\* Prefix.String of a masked prefix (lengths below ten): one group per
\* address bit, joined by the family's separator, "/", the length
PrefixString(prefix) ==
    [i \in 1..(2 * maxBitsOf(prefix.is6) - 1) |->
        IF i % 2 = 1 THEN Digit0 + BitAt(prefix.addr, (i - 1) \div 2)
        ELSE SepOf(prefix.is6)]
    \o <<Slash, Digit0 + prefix.bits>>

\* the key (bits, len) of a prefix: its leading bits
KeyOf(prefix) == [i \in 1..prefix.bits |-> BitAt(prefix.addr, i - 1)]

\* the prefix with key k contains the address
Contains(k, ip) == \A i \in 1..Len(k) : BitAt(ip.addr, i - 1) = k[i]

----------------------------------------------------------------------------
(* CIDR text: netip.ParsePrefix, Prefix.Masked and Trie.InsertCIDR *)

ErrInvalidCIDR == "invalid CIDR"

IsDigit(c) == c >= Digit0 /\ c <= Digit0 + 9

\* strconv.Atoi of a sequence of digits
RECURSIVE Atoi(_)
Atoi(str) ==
    IF str = <<>> THEN 0
    ELSE 10 * Atoi(SubSeq(str, 1, Len(str) - 1)) + (str[Len(str)] - Digit0)

\* the value of the address groups: one binary digit per group
RECURSIVE GroupsValue(_)
GroupsValue(str) ==
    IF Len(str) <= 1 THEN str[1] - Digit0
    ELSE 2 * GroupsValue(SubSeq(str, 1, Len(str) - 2)) + (str[Len(str)] - Digit0)

\* netip.ParseAddr: the family is decided by the separator that occurs in the text
ParseAddr(str) ==
    LET is6  == \E i \in 1..Len(str) : str[i] = Colon
        is4  == ~is6 /\ \E i \in 1..Len(str) : str[i] = Dot
        w    == maxBitsOf(is6)
    IN  IF /\ is6 \/ is4
           /\ Len(str) = 2 * w - 1
           /\ \A i \in 1..Len(str) :
                 IF i % 2 = 1 THEN str[i] \in {Digit0, Digit0 + 1}
                 ELSE str[i] = SepOf(is6)
        THEN [ok |-> TRUE, is6 |-> is6, addr |-> AddrBytes(is6, GroupsValue(str), w)]
        ELSE [ok |-> FALSE]

\* netip.ParsePrefix that takes an address without length as a host prefix
ParsePrefixHostDefault(str) ==
    LET slashes == {i \in 1..Len(str) : str[i] = Slash}
    IN  IF slashes = {}
        THEN IF ParseAddr(str).ok
             THEN [ok |-> TRUE,
                   prefix |-> [is6 |-> ParseAddr(str).is6, addr |-> ParseAddr(str).addr,
                               bits |-> maxBitsOf(ParseAddr(str).is6)]]
             ELSE [ok |-> FALSE]
        ELSE
        LET i       == CHOOSE x \in slashes : \A y \in slashes : y <= x
            ip      == ParseAddr(SubSeq(str, 1, i - 1))
            bitsStr == SubSeq(str, i + 1, Len(str))
        IN  IF ~ip.ok THEN [ok |-> FALSE]
            ELSE IF bitsStr = <<>> \/ \E j \in 1..Len(bitsStr) : ~IsDigit(bitsStr[j])
                 THEN [ok |-> FALSE]
            ELSE IF Len(bitsStr) > 1 /\ bitsStr[1] = Digit0 THEN [ok |-> FALSE]
            ELSE IF Len(bitsStr) > 3 \/ Atoi(bitsStr) > maxBitsOf(ip.is6) THEN [ok |-> FALSE]
            ELSE [ok |-> TRUE,
                  prefix |-> [is6 |-> ip.is6, addr |-> ip.addr, bits |-> Atoi(bitsStr)]]

\* netip.ParsePrefix
ParsePrefix(str) ==
    LET slashes == {i \in 1..Len(str) : str[i] = Slash}
    IN  IF slashes = {} THEN [ok |-> FALSE]
        ELSE
        LET i       == CHOOSE x \in slashes : \A y \in slashes : y <= x
            ip      == ParseAddr(SubSeq(str, 1, i - 1))
            bitsStr == SubSeq(str, i + 1, Len(str))
        IN  IF ~ip.ok THEN [ok |-> FALSE]
            ELSE IF bitsStr = <<>> \/ \E j \in 1..Len(bitsStr) : ~IsDigit(bitsStr[j])
                 THEN [ok |-> FALSE]
            ELSE IF Len(bitsStr) > 1 /\ bitsStr[1] = Digit0 THEN [ok |-> FALSE]
            ELSE IF Len(bitsStr) > 3 \/ Atoi(bitsStr) > maxBitsOf(ip.is6) THEN [ok |-> FALSE]
            ELSE [ok |-> TRUE,
                  prefix |-> [is6 |-> ip.is6, addr |-> ip.addr, bits |-> Atoi(bitsStr)]]

\* Prefix.Masked that returns the prefix as it is
MaskedKeepsHostBits(prefix) == prefix

\* Prefix.Masked: the bits after the prefix length cleared
Masked(prefix) ==
    LET w    == addrLen(prefix.is6) * ByteBits
        tail == Pow2(w - prefix.bits)
    IN  [prefix EXCEPT !.addr =
            BytesOf((ValueOf(prefix.addr) \div tail) * tail, addrLen(prefix.is6))]

\* strings.ToUpper on ASCII text
ToUpper(str) == [i \in 1..Len(str) |-> IF str[i] >= 97 /\ str[i] <= 122 THEN str[i] - 32 ELSE str[i]]

\* Trie.InsertCIDR: the trie after the call and the error it returns
InsertCIDR(t, cidr, countryCode) ==
    LET p == ParsePrefix(cidr)
    IN  IF ~p.ok THEN [trie |-> t, err |-> ErrInvalidCIDR]
        ELSE Insert(t, Masked(p.prefix),
                    [CountryCode |-> ToUpper(countryCode),
                     PrefixStr |-> PrefixString(Masked(p.prefix))])

----------------------------------------------------------------------------
(* Snapshot store and `ip2cc update`: internal/snapshot, internal/cli update.go *)

Dates == {"2025-01-15", "2025-01-16"}

NoDir == [nodir |-> TRUE]

\* the symbolic link os.Symlink(date, latestPath) makes
Link(date) == [target |-> date]

\* a date directory as CreateSnapshot makes it
EmptyDir == [meta |-> NoFile, v4 |-> NoFile, v6 |-> NoFile]

\* the content of a file that was opened for writing and holds nothing yet
EmptyFile == <<>>

\* the country codes of the build, lower case: "us", "de"
Countries == <<<<117, 115>>, <<100, 101>>>>

\* the transcript of the source: per country its IPv4 and its IPv6 CIDR lists.
\* "us" lists a prefix, a longer prefix with host bits set and a text without
\* prefix length; "de" lists one prefix of each family and the first prefix
\* of "us" as well.
SourceV4 ==
    << << PrefixString([is6 |-> FALSE, addr |-> AddrBytes(FALSE, 0, 1), bits |-> 1]),
          PrefixString([is6 |-> FALSE, addr |-> AddrBytes(FALSE, 1, 2), bits |-> 1]),
          <<Digit0 + 1>> >>,
       << PrefixString([is6 |-> FALSE, addr |-> AddrBytes(FALSE, 3, 2), bits |-> 2]),
          PrefixString([is6 |-> FALSE, addr |-> AddrBytes(FALSE, 0, 1), bits |-> 1]) >> >>

SourceV6 ==
    << << >>,
       << PrefixString([is6 |-> TRUE, addr |-> AddrBytes(TRUE, 1, 1), bits |-> 1]) >> >>

QueryTimeOfSource == "2025-01-15T00:00:00"

\* GetCountryResourceList for country idx when the request succeeds
FetchResult(idx) ==
    [CountryCode |-> ToUpper(Countries[idx]),
     IPv4 |-> SourceV4[idx], IPv6 |-> SourceV6[idx],
     QueryTime |-> QueryTimeOfSource]

\* no update is running; n counts the runs so far
Idle(n) == [pc |-> "idle", n |-> n]

StoreIdle ==
    /\ fs = [d \in Dates |-> NoDir]
    /\ latest = NoFile
    /\ up = Idle(0)
    /\ ret = "none"

\* SnapshotExists that looks at the directory only
SnapshotExistsDirOnly(date) == fs[date] # NoDir

\* Manager.SnapshotExists
SnapshotExists(date) == fs[date] # NoDir /\ fs[date].meta # NoFile

\* the loop over one result's prefixes: the trie and the number of InsertCIDR calls without error
RECURSIVE InsertList(_, _, _)
InsertList(acc, list, cc) ==
    IF list = <<>> THEN acc
    ELSE LET r == InsertCIDR(acc.trie, Head(list), cc)
         IN  InsertList([trie |-> r.trie,
                         count |-> IF r.err = NoError THEN acc.count + 1 ELSE acc.count],
                        Tail(list), cc)

\* the loop over results that ends at the first nil result
RECURSIVE BuildIndexStopAtNil(_, _, _, _)
BuildIndexStopAtNil(acc, results, isIPv6, idx) ==
    IF idx > Len(results) THEN acc
    ELSE IF results[idx] = Nil THEN acc
    ELSE BuildIndexStopAtNil(InsertList(acc,
                               IF isIPv6 THEN results[idx].IPv6 ELSE results[idx].IPv4,
                               results[idx].CountryCode),
                    results, isIPv6, idx + 1)

\* the loop over results in index order, nil results skipped
RECURSIVE BuildIndex(_, _, _, _)
BuildIndex(acc, results, isIPv6, idx) ==
    IF idx > Len(results) THEN acc
    ELSE IF results[idx] = Nil THEN BuildIndex(acc, results, isIPv6, idx + 1)
    ELSE BuildIndex(InsertList(acc,
                               IF isIPv6 THEN results[idx].IPv6 ELSE results[idx].IPv4,
                               results[idx].CountryCode),
                    results, isIPv6, idx + 1)

\* the query time of the first result that has one, else the snapshot date
RECURSIVE ActualQueryTime(_, _, _)
ActualQueryTime(results, snapshotDate, idx) ==
    IF idx > Len(results) THEN snapshotDate
    ELSE IF results[idx] # Nil /\ results[idx].QueryTime # "" THEN results[idx].QueryTime
    ELSE ActualQueryTime(results, snapshotDate, idx + 1)

\* runUpdate that never takes the early return
AlreadyBuiltNever(date, force) == FALSE

\* runUpdate: the test for the early return
AlreadyBuilt(date, force) == ~force /\ SnapshotExists(date)

\* runUpdate, the snapshot exists and --force is not given: nothing is built
UpdateExists ==
    /\ up.pc = "idle"
    /\ \E date \in Dates, force \in BOOLEAN :
          /\ AlreadyBuilt(date, force)
          /\ ret' = "exists"
    /\ UNCHANGED <<fs, latest, up, trieVars, codecVars>>

\* runUpdate up to the start of the downloads: CreateSnapshot makes the directory
UpdateStart ==
    /\ up.pc = "idle"
    /\ up.n < MaxBuilds
    /\ \E date \in Dates, force \in BOOLEAN :
          /\ ~AlreadyBuilt(date, force)
          /\ fs' = [fs EXCEPT ![date] = IF fs[date] = NoDir THEN EmptyDir ELSE fs[date]]
          /\ up' = [pc |-> "fetch", n |-> up.n + 1, date |-> date, force |-> force,
                    results |-> [i \in 1..Len(Countries) |-> Nil],
                    done |-> {}, errors |-> <<>>, linkBefore |-> latest]
    /\ ret' = "running"
    /\ UNCHANGED <<latest, trieVars, codecVars>>

\* runUpdate, CreateSnapshot fails: the error is returned, nothing is made
CreateSnapshotFail ==
    /\ up.pc = "idle"
    /\ up.n < MaxBuilds
    /\ \E date \in Dates, force \in BOOLEAN :
          /\ ~AlreadyBuilt(date, force)
          /\ up' = Idle(up.n + 1)
    /\ ret' = "error"
    /\ UNCHANGED <<fs, latest, trieVars, codecVars>>

\* the result stored at the next free place, in the order of completion
PlaceByCompletion(results, done, idx, result) ==
    [results EXCEPT ![Cardinality(done) + 1] = result]

\* results[idx] = result: the place of a result is the place of its country
PlaceResult(results, done, idx, result) == [results EXCEPT ![idx] = result]

\* one download goroutine: the result or the error is recorded under the mutex
Fetch ==
    /\ up.pc = "fetch"
    /\ \E idx \in (1..Len(Countries)) \ up.done :
          \/ up' = [up EXCEPT !.results = PlaceResult(@, up.done, idx, FetchResult(idx)),
                              !.done = @ \cup {idx}]
          \/ up' = [up EXCEPT !.errors = Append(@, Countries[idx]), !.done = @ \cup {idx}]
    /\ UNCHANGED <<fs, latest, ret, trieVars, codecVars>>

\* after wg.Wait: both tries are built from the results
BuildIndices ==
    /\ up.pc = "fetch"
    /\ up.done = 1..Len(Countries)
    /\ LET v4 == BuildIndex([trie |-> NewTrie(FALSE), count |-> 0], up.results, FALSE, 1)
           v6 == BuildIndex([trie |-> NewTrie(TRUE), count |-> 0], up.results, TRUE, 1)
       IN  up' = [pc |-> "saveV4", n |-> up.n, date |-> up.date, force |-> up.force,
                  results |-> up.results, errors |-> up.errors,
                  linkBefore |-> up.linkBefore,
                  v4Trie |-> v4.trie, v4Count |-> v4.count,
                  v6Trie |-> v6.trie, v6Count |-> v6.count]
    /\ UNCHANGED <<fs, latest, ret, trieVars, codecVars>>

\* the index file saveTrie is writing, and what it writes to it
Target == IF up.pc \in {"saveV4", "writeV4"} THEN "v4" ELSE "v6"

TargetBytes ==
    IF Target = "v4" THEN saveTrieBytes(up.v4Trie, FALSE) ELSE saveTrieBytes(up.v6Trie, TRUE)

\* saveTrie: os.Create makes the file or truncates the one that is there
CreateIndex ==
    /\ up.pc \in {"saveV4", "saveV6"}
    /\ fs' = [fs EXCEPT ![up.date][Target] = EmptyFile]
    /\ up' = [up EXCEPT !.pc = IF up.pc = "saveV4" THEN "writeV4" ELSE "writeV6"]
    /\ UNCHANGED <<latest, ret, trieVars, codecVars>>

\* SaveIndex that saves the IPv4 index only
WriteIndexV4Only ==
    /\ up.pc \in {"writeV4", "writeV6"}
    /\ LET n == Len(fs[up.date][Target]) + BufSize
       IN  IF n < Len(TargetBytes)
           THEN /\ fs' = [fs EXCEPT ![up.date][Target] = SubSeq(TargetBytes, 1, n)]
                /\ UNCHANGED up
           ELSE /\ fs' = [fs EXCEPT ![up.date][Target] = TargetBytes]
                /\ up' = [up EXCEPT !.pc = "saveMeta"]
    /\ UNCHANGED <<latest, ret, trieVars, codecVars>>

\* saveTrie: the buffered writer passes its next full buffer to the file, or
\* Flush passes the rest and saveTrie returns
WriteIndex ==
    /\ up.pc \in {"writeV4", "writeV6"}
    /\ LET n == Len(fs[up.date][Target]) + BufSize
       IN  IF n < Len(TargetBytes)
           THEN /\ fs' = [fs EXCEPT ![up.date][Target] = SubSeq(TargetBytes, 1, n)]
                /\ UNCHANGED up
           ELSE /\ fs' = [fs EXCEPT ![up.date][Target] = TargetBytes]
                /\ up' = [up EXCEPT !.pc = IF up.pc = "writeV4" THEN "saveV6" ELSE "saveMeta"]
    /\ UNCHANGED <<latest, ret, trieVars, codecVars>>

\* os.Create, a write or the flush fails: saveTrie, SaveIndex and runUpdate
\* return the error, the file stays as far as it was written
SaveIndexFail ==
    /\ up.pc \in {"saveV4", "writeV4", "saveV6", "writeV6"}
    /\ up' = Idle(up.n)
    /\ ret' = "error"
    /\ UNCHANGED <<fs, latest, trieVars, codecVars>>

\* the Metadata runUpdate composes
NewMetadata ==
    [Version |-> 1, IndexFormatVersion |-> 1,
     Source |-> "RIPEstat country-resource-list",
     RequestedTime |-> up.date,
     ActualQueryTime |-> ActualQueryTime(up.results, up.date, 1),
     CountriesCount |-> Len(Countries), Countries |-> Countries,
     PrefixesV4 |-> up.v4Count, PrefixesV6 |-> up.v6Count,
     IsLatest |-> TRUE]

\* Metadata.Save: os.WriteFile opens metadata.json, truncating it
CreateMetadata ==
    /\ up.pc = "saveMeta"
    /\ fs' = [fs EXCEPT ![up.date].meta = EmptyFile]
    /\ up' = [up EXCEPT !.pc = "writeMeta"]
    /\ UNCHANGED <<latest, ret, trieVars, codecVars>>

\* Metadata.Save: os.WriteFile writes the JSON text
WriteMetadata ==
    /\ up.pc = "writeMeta"
    /\ fs' = [fs EXCEPT ![up.date].meta = NewMetadata]
    /\ up' = [up EXCEPT !.pc = "setLatest"]
    /\ UNCHANGED <<latest, ret, trieVars, codecVars>>

\* a failed metadata write that takes the link away
SaveMetadataFailLinkGone ==
    /\ up.pc \in {"saveMeta", "writeMeta"}
    /\ up' = Idle(up.n)
    /\ ret' = "error"
    /\ latest' = NoFile
    /\ UNCHANGED <<fs, trieVars, codecVars>>

\* os.WriteFile fails: runUpdate returns the error
SaveMetadataFail ==
    /\ up.pc \in {"saveMeta", "writeMeta"}
    /\ up' = Idle(up.n)
    /\ ret' = "error"
    /\ UNCHANGED <<fs, latest, trieVars, codecVars>>

\* Manager.SetLatest: os.Remove of the link, its error ignored
RemoveLatest ==
    /\ up.pc = "setLatest"
    /\ latest' = NoFile
    /\ up' = [up EXCEPT !.pc = "symlink"]
    /\ UNCHANGED <<fs, ret, trieVars, codecVars>>

\* Manager.SetLatest: os.Symlink; runUpdate returns nil whether or not it fails
Symlink ==
    /\ up.pc = "symlink"
    /\ \/ latest' = Link(up.date)
       \/ UNCHANGED latest
    /\ up' = Idle(up.n)
    /\ ret' = "ok"
    /\ UNCHANGED <<fs, trieVars, codecVars>>

StoreInit ==
    /\ trie = NewTrie(FALSE)
    /\ err = NoError
    /\ stored = <<>>
    /\ replaced = FALSE
    /\ file = NoFile
    /\ loaded = Nil
    /\ StoreIdle

StoreNext ==
    \/ UpdateExists
    \/ UpdateStart
    \/ CreateSnapshotFail
    \/ Fetch
    \/ BuildIndices
    \/ CreateIndex
    \/ WriteIndex
    \/ SaveIndexFail
    \/ CreateMetadata
    \/ WriteMetadata
    \/ SaveMetadataFail
    \/ RemoveLatest
    \/ Symlink

SpecStore == StoreInit /\ [][StoreNext]_vars

----------------------------------------------------------------------------
(* runUpdate, the downloads: one goroutine per country behind a semaphore *)

\* the --concurrency values: below 1, in range, above the maximum
RequestedConcurrency == 0..(MaxConcurrency + 1)

\* the concurrency as the flag gives it
ConcurrencyUnclamped(requested) == requested

\* runUpdate: validate concurrency
EffectiveConcurrency(requested) ==
    IF requested < 1 THEN 1
    ELSE IF requested > MaxConcurrency THEN MaxConcurrency
    ELSE requested

\* runUpdate at the loop that starts the goroutines, for n country codes
FanOut(requested, count) ==
    [pc |-> "download", n |-> 1, requested |-> requested,
     concurrency |-> EffectiveConcurrency(requested),
     task |-> [i \in 1..count |-> "waiting"],
     sem |-> 0,
     results |-> [i \in 1..count |-> Nil],
     errors |-> <<>>,
     pass |-> "v4", next |-> 1, inserted |-> <<>>]

\* the goroutines whose GetCountryResourceList call is in progress
InProgress == {i \in DOMAIN up.task : up.task[i] = "fetching"}

\* sem <- struct{}{}: the goroutine takes a slot of the channel and calls the source
Acquire ==
    /\ up.pc \in {"download", "build"}
    /\ up.sem < up.concurrency
    /\ \E i \in DOMAIN up.task :
          /\ up.task[i] = "waiting"
          /\ up' = [up EXCEPT !.task[i] = "fetching", !.sem = @ + 1]
    /\ UNCHANGED <<fs, latest, ret, trieVars, codecVars>>

\* GetCountryResourceList returns; the result or the error is recorded under the mutex
FetchReturn ==
    /\ up.pc \in {"download", "build"}
    /\ \E i \in DOMAIN up.task :
          /\ up.task[i] = "fetching"
          /\ \/ up' = [up EXCEPT !.task[i] = "returned", !.results[i] = [country |-> i]]
             \/ up' = [up EXCEPT !.task[i] = "returned", !.errors = Append(@, i)]
    /\ UNCHANGED <<fs, latest, ret, trieVars, codecVars>>

\* the goroutine ends without the deferred <-sem
ReleaseKeepsSlot ==
    /\ up.pc \in {"download", "build"}
    /\ \E i \in DOMAIN up.task :
          /\ up.task[i] = "returned"
          /\ up' = [up EXCEPT !.task[i] = "done"]
    /\ UNCHANGED <<fs, latest, ret, trieVars, codecVars>>

\* the deferred <-sem and wg.Done
Release ==
    /\ up.pc \in {"download", "build"}
    /\ \E i \in DOMAIN up.task :
          /\ up.task[i] = "returned"
          /\ up' = [up EXCEPT !.task[i] = "done", !.sem = @ - 1]
    /\ UNCHANGED <<fs, latest, ret, trieVars, codecVars>>

\* wg.Wait that returns at the first wg.Done
FanInFirst(task) == \E i \in DOMAIN task : task[i] = "done"

\* wg.Wait: every goroutine has called wg.Done
FanIn(task) == \A i \in DOMAIN task : task[i] = "done"

\* wg.Wait returns: the driver goes on to build the indices
WaitReturns ==
    /\ up.pc = "download"
    /\ FanIn(up.task)
    /\ up' = [up EXCEPT !.pc = "build"]
    /\ UNCHANGED <<fs, latest, ret, trieVars, codecVars>>

\* the driver, one turn of a build loop: the prefixes of results[next] are
\* inserted into the trie of the pass unless the result is nil; after the
\* IPv4 loop comes the IPv6 loop, after that the indices are saved
InsertResult ==
    /\ up.pc = "build"
    /\ LET log == IF up.results[up.next] = Nil THEN up.inserted
                  ELSE Append(up.inserted, <<up.pass, up.next>>)
       IN  IF up.next < Len(up.results)
           THEN up' = [up EXCEPT !.inserted = log, !.next = @ + 1]
           ELSE IF up.pass = "v4"
           THEN up' = [up EXCEPT !.inserted = log, !.next = 1, !.pass = "v6"]
           ELSE up' = [up EXCEPT !.inserted = log, !.pc = "save"]
    /\ UNCHANGED <<fs, latest, ret, trieVars, codecVars>>

FetchInit ==
    /\ trie = NewTrie(FALSE)
    /\ err = NoError
    /\ stored = <<>>
    /\ replaced = FALSE
    /\ file = NoFile
    /\ loaded = Nil
    /\ fs = [d \in Dates |-> IF d = "2025-01-15" THEN EmptyDir ELSE NoDir]
    /\ latest = NoFile
    /\ \E requested \in RequestedConcurrency, n \in 1..MaxCountries :
          up = FanOut(requested, n)
    /\ ret = "running"

FetchNext == Acquire \/ FetchReturn \/ Release \/ WaitReturns \/ InsertResult

SpecFetch == FetchInit /\ [][FetchNext]_vars

\* the fan-out under the scheduling of the Go runtime: a goroutine that can
\* run does run, a send on a channel with a free slot completes, and every
\* call of the source returns
SpecFetchLive ==
    /\ FetchInit
    /\ [][FetchNext]_vars
    /\ WF_vars(Acquire)
    /\ WF_vars(FetchReturn)
    /\ WF_vars(Release)
    /\ WF_vars(WaitReturns)
    /\ WF_vars(InsertResult)

----------------------------------------------------------------------------
(* Manager: the operations of internal/snapshot on the snapshots directory *)

LatestSymlink == "latest"

\* a directory name of ten characters with two hyphens that is not a date
OddName == "2025-0115-"

\* the names a caller passes as date: --time is used as given
Names == Dates \cup {OddName}

Hyphen == 45

\* the characters of a name
Chars(name) ==
    CASE name = "2025-01-15" -> <<50, 48, 50, 53, 45, 48, 49, 45, 49, 53>>
      [] name = "2025-01-16" -> <<50, 48, 50, 53, 45, 48, 49, 45, 49, 54>>
      [] name = OddName      -> <<50, 48, 50, 53, 45, 48, 49, 49, 53, 45>>
      [] name = LatestSymlink -> <<108, 97, 116, 101, 115, 116>>

\* strings.Count(name, "-")
RECURSIVE CountOf(_, _)
CountOf(chars, c) ==
    IF chars = <<>> THEN 0
    ELSE (IF Head(chars) = c THEN 1 ELSE 0) + CountOf(Tail(chars), c)

\* the order of Go strings: byte by byte, a proper prefix first
RECURSIVE Less(_, _)
Less(a, b) ==
    IF b = <<>> THEN FALSE
    ELSE IF a = <<>> THEN TRUE
    ELSE IF Head(a) # Head(b) THEN Head(a) < Head(b)
    ELSE Less(Tail(a), Tail(b))

\* the names of the set S in ascending order
RECURSIVE Ascending(_)
Ascending(S) ==
    IF S = {} THEN <<>>
    ELSE LET least == CHOOSE n \in S : \A o \in S \ {n} : Less(Chars(n), Chars(o))
         IN  <<least>> \o Ascending(S \ {least})

\* os.ReadDir of snapshots/: the entries sorted by name; the link is no directory
ReadDir(f, l) ==
    LET names == {n \in DOMAIN f : f[n] # NoDir} \cup
                 (IF l = NoFile THEN {} ELSE {LatestSymlink})
        sorted == Ascending(names)
    IN  [i \in 1..Len(sorted) |->
            [name |-> sorted[i], isDir |-> sorted[i] # LatestSymlink]]

\* the filter of ListSnapshots on one entry
ListsEntry(entry) ==
    /\ entry.isDir
    /\ entry.name # LatestSymlink
    /\ Len(Chars(entry.name)) = 10
    /\ CountOf(Chars(entry.name), Hyphen) = 2

\* Manager.ListSnapshots
RECURSIVE ListEntries(_)
ListEntries(entries) ==
    IF entries = <<>> THEN <<>>
    ELSE (IF ListsEntry(Head(entries)) THEN <<Head(entries).name>> ELSE <<>>)
         \o ListEntries(Tail(entries))

ListSnapshots(f, l) == ListEntries(ReadDir(f, l))

ErrLoadMetadata == "load metadata"

ErrNoSnapshots == "no snapshots available"

ErrSymlink == "symlink"

\* LoadMetadata of the metadata.json of directory name: os.ReadFile, json.Unmarshal
LoadMetadata(f, name) ==
    IF f[name] = NoDir \/ f[name].meta = NoFile THEN [meta |-> Nil, err |-> ErrReadFile]
    ELSE IF f[name].meta = EmptyFile THEN [meta |-> Nil, err |-> ErrLoadMetadata]
    ELSE [meta |-> f[name].meta, err |-> NoError]

\* GetLatestSnapshot without the link: the last name of the list only
GetLatestByDate(f, l) ==
    LET snapshots == ListSnapshots(f, l)
    IN  IF Len(snapshots) = 0
        THEN [dir |-> "", meta |-> Nil, err |-> ErrNoSnapshots]
        ELSE LET latestDate == snapshots[Len(snapshots)]
                 loadedMeta == LoadMetadata(f, latestDate)
             IN  IF loadedMeta.err # NoError
                 THEN [dir |-> "", meta |-> Nil, err |-> ErrLoadMetadata]
                 ELSE [dir |-> latestDate, meta |-> loadedMeta.meta, err |-> NoError]

\* GetLatestSnapshot that never reads the link
GetLatestIgnoringLink(f, l) == GetLatestByDate(f, l)

\* Manager.GetLatestSnapshot: the link when its target's metadata loads, else
\* the first name of the list sorted descending
GetLatestSnapshot(f, l) ==
    IF l # NoFile /\ LoadMetadata(f, l.target).err = NoError
    THEN [dir |-> l.target, meta |-> LoadMetadata(f, l.target).meta, err |-> NoError]
    ELSE GetLatestByDate(f, l)

\* os.RemoveAll of every date directory
RemoveAllDirs(f, date) == [n \in DOMAIN f |-> NoDir]

\* Manager.DeleteSnapshot: os.RemoveAll of the date directory
RemoveAll(f, date) == [f EXCEPT ![date] = NoDir]

\* the metadata the tests save: NewMetadata with RequestedTime set
TestMetadata(date) ==
    [Version |-> 1, IndexFormatVersion |-> 1,
     Source |-> "RIPEstat country-resource-list",
     RequestedTime |-> date,
     ActualQueryTime |-> "",
     CountriesCount |-> 0, Countries |-> <<>>,
     PrefixesV4 |-> 0, PrefixesV6 |-> 0,
     IsLatest |-> FALSE]

MgrUnchanged == UNCHANGED <<up, trieVars, codecVars>>

\* Manager.CreateSnapshot
MgrCreateSnapshot ==
    /\ \E date \in Names :
          /\ fs' = [fs EXCEPT ![date] = IF fs[date] = NoDir THEN EmptyDir ELSE fs[date]]
          /\ ret' = [op |-> "CreateSnapshot", date |-> date, err |-> NoError]
    /\ UNCHANGED latest
    /\ MgrUnchanged

\* Metadata.Save into a date directory: os.WriteFile writes the text, or fails
\* after it made the file
MgrSaveMetadata ==
    /\ \E date \in Names :
          /\ fs[date] # NoDir
          /\ \/ /\ fs' = [fs EXCEPT ![date].meta = TestMetadata(date)]
                /\ ret' = [op |-> "Save", date |-> date, err |-> NoError]
             \/ /\ fs' = [fs EXCEPT ![date].meta = EmptyFile]
                /\ ret' = [op |-> "Save", date |-> date, err |-> "write"]
    /\ UNCHANGED latest
    /\ MgrUnchanged

\* Manager.SetLatest: os.Remove, then os.Symlink which the host may refuse
MgrSetLatest ==
    /\ \E date \in Names :
          \/ /\ latest' = Link(date)
             /\ ret' = [op |-> "SetLatest", date |-> date, err |-> NoError]
          \/ /\ latest' = NoFile
             /\ ret' = [op |-> "SetLatest", date |-> date, err |-> ErrSymlink]
    /\ UNCHANGED fs
    /\ MgrUnchanged

\* Manager.DeleteSnapshot
MgrDeleteSnapshot ==
    /\ \E date \in Names :
          /\ fs' = RemoveAll(fs, date)
          /\ ret' = [op |-> "DeleteSnapshot", date |-> date, err |-> NoError]
    /\ UNCHANGED latest
    /\ MgrUnchanged

\* Manager.GetLatestSnapshot
MgrGetLatestSnapshot ==
    /\ ret' = [op |-> "GetLatestSnapshot", res |-> GetLatestSnapshot(fs, latest)]
    /\ UNCHANGED <<fs, latest>>
    /\ MgrUnchanged

\* Manager.ListSnapshots
MgrListSnapshots ==
    /\ ret' = [op |-> "ListSnapshots", dates |-> ListSnapshots(fs, latest), err |-> NoError]
    /\ UNCHANGED <<fs, latest>>
    /\ MgrUnchanged

\* Manager.SnapshotExists
MgrSnapshotExists ==
    /\ \E date \in Names :
          ret' = [op |-> "SnapshotExists", date |-> date, ok |-> SnapshotExists(date)]
    /\ UNCHANGED <<fs, latest>>
    /\ MgrUnchanged

ManagerInit ==
    /\ trie = NewTrie(FALSE)
    /\ err = NoError
    /\ stored = <<>>
    /\ replaced = FALSE
    /\ file = NoFile
    /\ loaded = Nil
    /\ fs = [n \in Names |-> NoDir]
    /\ latest = NoFile
    /\ up = Idle(0)
    /\ ret = [op |-> "none"]

ManagerNext ==
    \/ MgrCreateSnapshot
    \/ MgrSaveMetadata
    \/ MgrSetLatest
    \/ MgrDeleteSnapshot
    \/ MgrGetLatestSnapshot
    \/ MgrListSnapshots
    \/ MgrSnapshotExists

SpecManager == ManagerInit /\ [][ManagerNext]_vars

----------------------------------------------------------------------------
(* Trie state machine *)

TrieInit ==
    /\ trie \in {NewTrie(f) : f \in Families}
    /\ err = NoError
    /\ stored = <<>>
    /\ replaced = FALSE
    /\ file = NoFile
    /\ loaded = Nil
    /\ StoreIdle

\* the history of a successful Insert of key k with record data
Remember(k, data) ==
    /\ stored' = [x \in DOMAIN stored \cup {k} |-> IF x = k THEN data ELSE stored[x]]
    /\ replaced' = (k \in DOMAIN stored /\ stored[k] # data)

\* the records a prefix may be inserted with: PrefixStr is its canonical text;
\* the second country code is offered for the shortest prefixes only (the
\* record is opaque to Insert and Lookup)
DataFor(prefix) ==
    {[CountryCode |-> cc, PrefixStr |-> PrefixString(prefix)] :
        cc \in IF prefix.bits <= 1 THEN CountryCodes ELSE {CC_US}}

InsertInputs ==
    {[prefix |-> p, data |-> d, key |-> KeyOf(p)] :
        <<p, d>> \in UNION {{<<q, e>> : e \in DataFor(q)} : q \in AllPrefixes}}

\* a call of Trie.Insert with a prefix of the trie's family
InsertOk ==
    /\ trie.Count < MaxInserts
    /\ \E in \in InsertInputs :
          /\ in.prefix.is6 = trie.IsIPv6
          /\ LET r == Insert(trie, in.prefix, in.data)
             IN  /\ r.err = NoError
                 /\ trie' = r.trie
                 /\ err' = r.err
                 /\ Remember(in.key, in.data)
                 /\ UNCHANGED <<codecVars, storeVars>>

\* a call of Trie.Insert with a prefix of the other family
InsertMismatch ==
    /\ \E in \in InsertInputs :
          /\ in.prefix.is6 # trie.IsIPv6
          /\ in.prefix.bits <= 1
          /\ LET r == Insert(trie, in.prefix, in.data)
             IN  /\ r.err # NoError
                 /\ trie' = r.trie
                 /\ err' = r.err
                 /\ UNCHANGED <<stored, replaced, codecVars, storeVars>>

TrieNext == InsertOk \/ InsertMismatch

SpecTrie == TrieInit /\ [][TrieNext]_vars

----------------------------------------------------------------------------
(* Codec state machine: a trie is populated, saved once, then loaded *)

\* Insert while the trie has not been serialized
CodecInsert == file = NoFile /\ InsertOk

\* saveTrie as SaveIndex calls it, with the family of the trie
Save ==
    /\ file = NoFile
    /\ file' = saveTrieBytes(trie, trie.IsIPv6)
    /\ UNCHANGED <<trieVars, loaded, storeVars>>

\* loadTrie of the saved file, for either requested family
Load ==
    /\ file # NoFile
    /\ \E req \in Families :
          loaded' = [req |-> req, res |-> loadTrie(file, req)]
    /\ UNCHANGED <<trieVars, file, storeVars>>

CodecNext == CodecInsert \/ Save \/ Load

SpecCodec == TrieInit /\ [][CodecNext]_vars

\* LoadIndex on a file that holds only the first n bytes saveTrie writes for
\* the trie, n from the second byte of the magic on
LoadTruncated ==
    /\ file = NoFile
    /\ LET full == saveTrieBytes(trie, trie.IsIPv6)
       IN \E n \in 2..(Len(full) - 1) :
             /\ file' = SubSeq(full, 1, n)
             /\ loaded' = [req |-> trie.IsIPv6,
                           res |-> loadTrie(file', trie.IsIPv6)]
    /\ UNCHANGED <<trieVars, storeVars>>

TruncatedNext == CodecInsert \/ LoadTruncated

SpecTruncated == TrieInit /\ [][TruncatedNext]_vars

----------------------------------------------------------------------------
(* Loading files that saveTrie did not write *)

\* the bytes data with the byte at offset pos (from 0) replaced by val
SetByte(data, pos, val) == [data EXCEPT ![pos + 1] = val]

\* index files as saveTrie writes them: the empty trie of each family and
\* an IPv4 trie with one record
SavedFiles ==
    {saveTrieBytes(NewTrie(f), f) : f \in Families} \cup
    {saveTrieBytes(Insert(NewTrie(FALSE), in.prefix, in.data).trie, FALSE) :
        in \in {i \in InsertInputs : ~i.prefix.is6 /\ i.prefix.bits = 1}}

\* byte values written over a header byte
DamageValues == {0, 1, 2, 73}

\* a saved file with one byte of the magic or of the version replaced
OneByteDamaged ==
    {SetByte(data, pos, val) : data \in SavedFiles, pos \in 0..11, val \in DamageValues}

\* a saved file with a byte of the magic and the low byte of the version replaced
TwoBytesDamaged ==
    {SetByte(SetByte(data, pos, 0), 8, val) : data \in SavedFiles, pos \in 0..7, val \in {0, 2}}

\* a file shorter than the header, as TestLoadIndexInvalidFile writes one
ShortFiles ==
    {<<110, 111, 116, 32, 97, 32, 118, 97, 108, 105, 100, 32, 105, 110, 100, 101, 120>>,
     Magic \o LE32(IndexFormatVersion)}

DamagedFiles == SavedFiles \cup OneByteDamaged \cup TwoBytesDamaged \cup ShortFiles

LoadInit ==
    /\ trie = NewTrie(FALSE)
    /\ err = NoError
    /\ stored = <<>>
    /\ replaced = FALSE
    /\ file \in DamagedFiles
    /\ loaded = Nil
    /\ StoreIdle

LoadNext == Load

SpecLoad == LoadInit /\ [][LoadNext]_vars

----------------------------------------------------------------------------
(* `ip2cc <ip>`: runLookup and lookupSingle of internal/cli *)

ExitSuccess == 0
ExitInvalidInput == 2
ExitNoSnapshot == 3
ExitNotFound == 4
ExitProviderFailed == 5

ErrNotFound == "snapshot not found"

ErrInvalidMode == "invalid provider mode"

ErrNetwork == "request failed"

ErrNotRouted == "no ASN found (not routed)"

\* the results of a run of `ip2cc update` whose fetches all succeeded
AllFetched == [i \in 1..Len(Countries) |-> FetchResult(i)]

\* the date directory such a run leaves
BuiltSnapshot(date) ==
    [meta |-> TestMetadata(date),
     v4 |-> saveTrieBytes(BuildIndex([trie |-> NewTrie(FALSE), count |-> 0],
                                     AllFetched, FALSE, 1).trie, FALSE),
     v6 |-> saveTrieBytes(BuildIndex([trie |-> NewTrie(TRUE), count |-> 0],
                                     AllFetched, TRUE, 1).trie, TRUE)]

\* what `ip2cc update` can leave of a date directory: nothing, the bare
\* directory, the complete snapshot, and the complete snapshot after a forced
\* rebuild failed right after os.Create of an index file
SnapshotDirs(date) ==
    {NoDir, EmptyDir, BuiltSnapshot(date),
     [BuiltSnapshot(date) EXCEPT !.v4 = EmptyFile],
     [BuiltSnapshot(date) EXCEPT !.v6 = EmptyFile]}

\* the text of an address: one group per address bit
AddrString(ip) ==
    [i \in 1..(2 * maxBitsOf(ip.is6) - 1) |->
        IF i % 2 = 1 THEN Digit0 + BitAt(ip.addr, (i - 1) \div 2) ELSE SepOf(ip.is6)]

\* the argument of the command: the addresses of both families, an empty
\* text, a text without separator and a text with a group that is no number
IPTexts ==
    {AddrString(ip) : ip \in AllAddrs} \cup
    {<<>>, <<Digit0 + 1>>, <<Digit0, Dot, 120>>}

\* --time: not given, or a date
TimeFlags == {""} \cup Dates

\* --provider-mode
ProviderModes == {"bgp", "whois", "off", "asn"}

\* provider.ParseMode
ParseMode(s) ==
    IF s \in {"bgp", ""} THEN [mode |-> "bgp", err |-> NoError]
    ELSE IF s = "whois" THEN [mode |-> "whois", err |-> NoError]
    ELSE IF s = "off" THEN [mode |-> "off", err |-> NoError]
    ELSE [mode |-> "", err |-> ErrInvalidMode]

\* Manager.GetSnapshotByDate
GetSnapshotByDate(f, date) ==
    IF f[date] = NoDir \/ f[date].meta = NoFile
    THEN [dir |-> "", meta |-> Nil, err |-> ErrNotFound]
    ELSE IF LoadMetadata(f, date).err # NoError
    THEN [dir |-> "", meta |-> Nil, err |-> ErrLoadMetadata]
    ELSE [dir |-> date, meta |-> LoadMetadata(f, date).meta, err |-> NoError]

\* runLookup that reads the latest snapshot whatever --time says
GetSnapshotLatestOnly(f, l, time) == GetLatestSnapshot(f, l)

\* runLookup: the snapshot of --time, or the latest one
GetSnapshot(f, l, time) ==
    IF time # "" THEN GetSnapshotByDate(f, time) ELSE GetLatestSnapshot(f, l)

\* index.LoadIndex on the two index files of a date directory
LoadIndex(f, dir) ==
    LET v4 == loadTrie(f[dir].v4, FALSE)
        v6 == loadTrie(f[dir].v6, TRUE)
    IN  IF v4.err # NoError THEN [v4 |-> Nil, v6 |-> Nil, err |-> v4.err]
        ELSE IF v6.err # NoError THEN [v4 |-> Nil, v6 |-> Nil, err |-> v6.err]
        ELSE [v4 |-> v4.trie, v6 |-> v6.trie, err |-> NoError]

\* the provider.Result values Resolver.Resolve can return with a nil error:
\* the mode is off, the request failed, the address is not routed, or the
\* holders were found
ResolveResults(mode) ==
    IF mode = "off" THEN {[Mode |-> "off", Holders |-> 0, Error |-> ""]}
    ELSE IF mode = "bgp"
    THEN {[Mode |-> "bgp", Holders |-> 0, Error |-> ErrNetwork],
          [Mode |-> "bgp", Holders |-> 0, Error |-> ErrNotRouted],
          [Mode |-> "bgp", Holders |-> 0, Error |-> ""],
          [Mode |-> "bgp", Holders |-> 1, Error |-> ""]}
    ELSE {[Mode |-> "whois", Holders |-> 0, Error |-> ErrNetwork],
          [Mode |-> "whois", Holders |-> 1, Error |-> ""]}

\* exitWithCode: os.Exit ends the process with the code
exitWithCode(code) ==
    /\ up' = [up EXCEPT !.pc = "exited"]
    /\ ret' = [op |-> "exit", code |-> code]

LookupUnchanged == UNCHANGED <<fs, latest, trieVars, codecVars>>

\* runLookup: the snapshot is chosen
LookupSnapshot ==
    /\ up.pc = "snapshot"
    /\ LET s == GetSnapshot(fs, latest, up.timeFlag)
       IN  IF s.err # NoError
           THEN exitWithCode(ExitNoSnapshot)
           ELSE /\ up' = [up EXCEPT !.pc = "load", !.dir = s.dir, !.meta = s.meta]
                /\ UNCHANGED ret
    /\ LookupUnchanged

\* runLookup: the indexes are loaded
LookupLoadIndex ==
    /\ up.pc = "load"
    /\ LET i == LoadIndex(fs, up.dir)
       IN  IF i.err # NoError
           THEN exitWithCode(ExitNoSnapshot)
           ELSE /\ up' = [up EXCEPT !.pc = "resolver", !.v4 = i.v4, !.v6 = i.v6]
                /\ UNCHANGED ret
    /\ LookupUnchanged

\* runLookup: the resolver is set up unless --offline is given
LookupResolver ==
    /\ up.pc = "resolver"
    /\ IF up.offline
       THEN /\ up' = [up EXCEPT !.pc = "parse"]
            /\ UNCHANGED ret
       ELSE IF ParseMode(up.providerMode).err # NoError
       THEN exitWithCode(ExitInvalidInput)
       ELSE /\ up' = [up EXCEPT !.pc = "parse",
                                !.resolver = [mode |-> ParseMode(up.providerMode).mode]]
            /\ UNCHANGED ret
    /\ LookupUnchanged

\* lookupSingle: netip.ParseAddr of the argument
LookupParse ==
    /\ up.pc = "parse"
    /\ IF ~ParseAddr(up.ipStr).ok
       THEN exitWithCode(ExitInvalidInput)
       ELSE /\ up' = [up EXCEPT !.pc = "lookup",
                                !.ip = [is6 |-> ParseAddr(up.ipStr).is6,
                                        addr |-> ParseAddr(up.ipStr).addr]]
            /\ UNCHANGED ret
    /\ LookupUnchanged

\* lookupSingle: the trie of the address family is asked
LookupTrie ==
    /\ up.pc = "lookup"
    /\ LET t    == IF ~up.ip.is6 THEN up.v4 ELSE up.v6
           data == Lookup(t, up.ip)
       IN  IF data = Nil
           THEN exitWithCode(ExitNotFound)
           ELSE /\ up' = [up EXCEPT !.pc = IF up.resolver # Nil THEN "provider" ELSE "output",
                                    !.data = data]
                /\ UNCHANGED ret
    /\ LookupUnchanged

\* lookupSingle: resolver.Resolve, its error return dropped
LookupProvider ==
    /\ up.pc = "provider"
    /\ \E provResult \in ResolveResults(up.resolver.mode) :
          up' = [up EXCEPT !.pc = "output", !.provider = provResult]
    /\ UNCHANGED ret
    /\ LookupUnchanged

\* lookupSingle prints the result and returns nil: the process ends with 0
LookupOutput ==
    /\ up.pc = "output"
    /\ exitWithCode(ExitSuccess)
    /\ LookupUnchanged

\* no provider result
NoProvider == [Mode |-> "", Holders |-> 0, Error |-> ""]

LookupInit ==
    /\ trie = NewTrie(FALSE)
    /\ err = NoError
    /\ stored = <<>>
    /\ replaced = FALSE
    /\ file = NoFile
    /\ loaded = Nil
    /\ fs \in {f \in [Dates -> UNION {SnapshotDirs(d) : d \in Dates}] :
                  \A d \in Dates : f[d] \in SnapshotDirs(d)}
    /\ latest \in {NoFile} \cup {Link(d) : d \in {x \in Dates : fs[x] # NoDir /\ fs[x].meta # NoFile}}
    /\ \E ipStr \in IPTexts, timeFlag \in TimeFlags, offline \in BOOLEAN,
          providerMode \in ProviderModes :
          up = [pc |-> "snapshot", ipStr |-> ipStr, timeFlag |-> timeFlag,
                offline |-> offline, providerMode |-> providerMode,
                dir |-> "", meta |-> Nil, v4 |-> Nil, v6 |-> Nil,
                resolver |-> Nil, ip |-> Nil, data |-> Nil, provider |-> NoProvider]
    /\ ret = [op |-> "none"]

LookupNext ==
    \/ LookupSnapshot
    \/ LookupLoadIndex
    \/ LookupResolver
    \/ LookupParse
    \/ LookupTrie
    \/ LookupProvider
    \/ LookupOutput

SpecLookup == LookupInit /\ [][LookupNext]_vars

----------------------------------------------------------------------------
(* RIPEstat client: Client.Get and Client.calculateBackoff of internal/ripestat *)

MaxRetries == 3

\* the attempt numbers calculateBackoff is asked for
MaxAttempt == 66

\* a time.Duration is an int64: eight bytes, least significant first, two's complement
ByteBase == 256

Int64Bytes == 8

\* the int64 of a number 0..2^31-1
RECURSIVE I64Limbs(_, _)
I64Limbs(n, k) ==
    IF k = 0 THEN <<>> ELSE <<n % ByteBase>> \o I64Limbs(n \div ByteBase, k - 1)

I64(n) == I64Limbs(n, Int64Bytes)

\* int64 multiplication: the low 64 bits of the product
RECURSIVE Column(_, _, _, _)
Column(a, b, k, i) ==
    IF i > k THEN 0 ELSE a[i] * b[k + 1 - i] + Column(a, b, k, i + 1)

RECURSIVE MulLimbs(_, _, _, _)
MulLimbs(a, b, k, carry) ==
    IF k > Int64Bytes THEN <<>>
    ELSE LET sum == Column(a, b, k, 1) + carry
         IN  <<sum % ByteBase>> \o MulLimbs(a, b, k + 1, sum \div ByteBase)

MulI64(a, b) == MulLimbs(a, b, 1, 0)

\* int64 addition: the low 64 bits of the sum
RECURSIVE AddLimbs(_, _, _, _)
AddLimbs(a, b, k, carry) ==
    IF k > Int64Bytes THEN <<>>
    ELSE <<(a[k] + b[k] + carry) % ByteBase>>
         \o AddLimbs(a, b, k + 1, (a[k] + b[k] + carry) \div ByteBase)

AddI64(a, b) == AddLimbs(a, b, 1, 0)

\* 1 << s on an int64: zero from s = 64 on
ShlOne(s) ==
    [k \in 1..Int64Bytes |-> IF k = s \div 8 + 1 THEN Pow2(s % 8) ELSE 0]

IsNegative(a) == a[Int64Bytes] >= ByteBase \div 2

IsZero(a) == \A i \in 1..Int64Bytes : a[i] = 0

\* a < b on int64
RECURSIVE LtLimbs(_, _, _)
LtLimbs(a, b, k) ==
    IF k = 0 THEN FALSE
    ELSE IF a[k] # b[k] THEN a[k] < b[k]
    ELSE LtLimbs(a, b, k - 1)

LtI64(a, b) ==
    IF IsNegative(a) # IsNegative(b) THEN IsNegative(a) ELSE LtLimbs(a, b, Int64Bytes)

\* a / 4 on an int64 that is not negative
Quarter(a) ==
    [k \in 1..Int64Bytes |->
        (a[k] \div 4) + (IF k < Int64Bytes THEN (a[k + 1] % 4) * (ByteBase \div 4) ELSE 0)]

MinusOne == [k \in 1..Int64Bytes |-> ByteBase - 1]

BaseBackoff == I64(1000000000)

MaxBackoff == MulI64(I64(30), BaseBackoff)

\* what rand.Int63n(n) returns for n > 0 is one of 0..n-1: the least and the most
JitterPicks == {"least", "most"}

Panics == [panic |-> TRUE]

\* calculateBackoff without the cap at MaxBackoff
calculateBackoffUncapped(attempt, pick) ==
    LET backoff == MulI64(BaseBackoff, ShlOne(attempt - 1))
        n       == Quarter(backoff)
    IN  IF IsNegative(backoff) \/ IsZero(n) THEN Panics
        ELSE [panic |-> FALSE,
              d |-> AddI64(backoff, IF pick = "least" THEN I64(0) ELSE AddI64(n, MinusOne))]

\* Client.calculateBackoff: rand.Int63n panics when its argument is not positive
calculateBackoff(attempt, pick) ==
    LET shifted == MulI64(BaseBackoff, ShlOne(attempt - 1))
        backoff == IF LtI64(MaxBackoff, shifted) THEN MaxBackoff ELSE shifted
        n       == IF IsNegative(backoff) THEN backoff ELSE Quarter(backoff)
    IN  IF IsNegative(n) \/ IsZero(n) THEN Panics
        ELSE [panic |-> FALSE,
              d |-> AddI64(backoff, IF pick = "least" THEN I64(0) ELSE AddI64(n, MinusOne))]

ClientUnchanged == UNCHANGED <<fs, latest, trieVars, codecVars>>

\* a call of calculateBackoff with an attempt number
CalculateBackoff ==
    /\ up.pc = "call"
    /\ up' = [up EXCEPT !.pc = "returned"]
    /\ ret' = calculateBackoff(up.attempt, up.pick)
    /\ ClientUnchanged

BackoffInit ==
    /\ trie = NewTrie(FALSE)
    /\ err = NoError
    /\ stored = <<>>
    /\ replaced = FALSE
    /\ file = NoFile
    /\ loaded = Nil
    /\ fs = [d \in Dates |-> NoDir]
    /\ latest = NoFile
    /\ \E attempt \in 1..MaxAttempt, pick \in JitterPicks :
          up = [pc |-> "call", attempt |-> attempt, pick |-> pick]
    /\ ret = [panic |-> FALSE, d |-> I64(0)]

BackoffNext == CalculateBackoff

SpecBackoff == BackoffInit /\ [][BackoffNext]_vars

\* the errors doRequest returns
RequestErrors == {"do request", "HTTP status", "read body", "decode response", "API error"}

ErrContext == "context done"

ErrAfterRetries == "after 3 retries"

\* the loop test of Get that stops one attempt early
MoreAttemptsExclusive(attempt) == attempt < MaxRetries

\* the loop test of Get
MoreAttempts(attempt) == attempt <= MaxRetries

\* Get returns
Return(resp, e) ==
    /\ up' = [up EXCEPT !.pc = "returned"]
    /\ ret' = [resp |-> resp, err |-> e]

\* the context of the call is cancelled or its deadline passes
ContextDone ==
    /\ up.pc \in {"backoff", "request", "check"}
    /\ ~up.ctxDone
    /\ up' = [up EXCEPT !.ctxDone = TRUE]
    /\ UNCHANGED ret
    /\ ClientUnchanged

\* the select before a retry: the context is done
WaitContext ==
    /\ up.pc = "backoff"
    /\ up.ctxDone
    /\ Return(Nil, ErrContext)
    /\ ClientUnchanged

\* the select before a retry: the timer of the backoff fires
WaitTimer ==
    /\ up.pc = "backoff"
    /\ up' = [up EXCEPT !.pc = "request"]
    /\ UNCHANGED ret
    /\ ClientUnchanged

\* doRequest returns a response: Get returns it
RequestOk ==
    /\ up.pc = "request"
    /\ ~up.ctxDone
    /\ up' = [up EXCEPT !.pc = "returned", !.log = Append(@, "ok")]
    /\ ret' = [resp |-> "ok", err |-> NoError]
    /\ ClientUnchanged

\* doRequest returns an error; with a context that is done it is the
\* error of the context
RequestFail ==
    /\ up.pc = "request"
    /\ \E e \in IF up.ctxDone THEN {"do request"} ELSE RequestErrors :
          up' = [up EXCEPT !.pc = "check", !.lastErr = e, !.log = Append(@, e)]
    /\ UNCHANGED ret
    /\ ClientUnchanged

\* after a failed request: the context is looked at, then the loop goes on
\* or ends
NextAttempt ==
    /\ up.pc = "check"
    /\ IF up.ctxDone
       THEN Return(Nil, ErrContext)
       ELSE IF MoreAttempts(up.attempt + 1)
       THEN /\ \E pick \in JitterPicks :
                  up' = [up EXCEPT !.pc = "backoff", !.attempt = @ + 1,
                                   !.backoff = calculateBackoff(up.attempt + 1, pick)]
            /\ UNCHANGED ret
       ELSE Return(Nil, ErrAfterRetries)
    /\ ClientUnchanged

ClientInit ==
    /\ trie = NewTrie(FALSE)
    /\ err = NoError
    /\ stored = <<>>
    /\ replaced = FALSE
    /\ file = NoFile
    /\ loaded = Nil
    /\ fs = [d \in Dates |-> NoDir]
    /\ latest = NoFile
    /\ \E done \in BOOLEAN :
          up = [pc |-> "request", attempt |-> 0, ctxDone |-> done, lastErr |-> NoError,
                log |-> <<>>, backoff |-> [panic |-> FALSE, d |-> I64(0)]]
    /\ ret = [resp |-> Nil, err |-> NoError]

ClientNext ==
    \/ ContextDone
    \/ WaitContext
    \/ WaitTimer
    \/ RequestOk
    \/ RequestFail
    \/ NextAttempt

SpecClient == ClientInit /\ [][ClientNext]_vars

----------------------------------------------------------------------------
(* Provider cache: Cache.Get, Set, Clear and Cleanup of internal/provider *)

\* the clock runs from 0 to MaxTime
MaxTime == 3

\* the ttl a cache is made with is one of 0..MaxTTL
MaxTTL == 2

ASNs == {15169, 13335}

Holders == {"GOOGLE", "CLOUDFLARENET"}

NoEntries == [asn \in ASNs |-> Nil]

\* Cache.Get without the test of ExpiresAt
GetIgnoringExpiry(entries, asn, now) ==
    IF entries[asn] = Nil THEN [holder |-> "", ok |-> FALSE]
    ELSE [holder |-> entries[asn].Holder, ok |-> TRUE]

\* Cache.Get
Get(entries, asn, now) ==
    IF entries[asn] = Nil THEN [holder |-> "", ok |-> FALSE]
    ELSE IF now > entries[asn].ExpiresAt THEN [holder |-> "", ok |-> FALSE]
    ELSE [holder |-> entries[asn].Holder, ok |-> TRUE]

\* Cache.Set: the entry of the asn is replaced
Set(entries, asn, holder, now, ttl) ==
    [entries EXCEPT ![asn] = [Holder |-> holder, CachedAt |-> now, ExpiresAt |-> now + ttl]]

\* Cache.Cleanup: the entries left and the number removed
Cleanup(entries, now) ==
    [entries |-> [asn \in ASNs |->
                     IF entries[asn] # Nil /\ now > entries[asn].ExpiresAt
                     THEN Nil ELSE entries[asn]],
     removed |-> Cardinality({asn \in ASNs :
                     entries[asn] # Nil /\ now > entries[asn].ExpiresAt})]

CacheUnchanged == UNCHANGED <<fs, latest, trieVars, codecVars>>

\* time passes
Tick ==
    /\ up.now < MaxTime
    /\ up' = [up EXCEPT !.now = @ + 1]
    /\ UNCHANGED ret
    /\ CacheUnchanged

CacheSet ==
    /\ \E asn \in ASNs, holder \in Holders :
          /\ up' = [up EXCEPT !.entries = Set(@, asn, holder, up.now, up.ttl),
                              !.dirty = TRUE,
                              !.lastSet[asn] = [holder |-> holder, at |-> up.now]]
          /\ ret' = [op |-> "Set", asn |-> asn, at |-> up.now]
    /\ CacheUnchanged

CacheGet ==
    /\ \E asn \in ASNs :
          ret' = [op |-> "Get", asn |-> asn, at |-> up.now,
                  holder |-> Get(up.entries, asn, up.now).holder,
                  ok |-> Get(up.entries, asn, up.now).ok]
    /\ UNCHANGED up
    /\ CacheUnchanged

CacheClear ==
    /\ up' = [up EXCEPT !.entries = NoEntries, !.dirty = TRUE]
    /\ ret' = [op |-> "Clear", at |-> up.now]
    /\ CacheUnchanged

CacheCleanup ==
    /\ LET c == Cleanup(up.entries, up.now)
       IN  /\ up' = [up EXCEPT !.entries = c.entries,
                               !.dirty = IF c.removed > 0 THEN TRUE ELSE @]
           /\ ret' = [op |-> "Cleanup", at |-> up.now, removed |-> c.removed]
    /\ CacheUnchanged

\* NewCache; lastSet remembers per asn the holder and the time of its last Set
CacheInit ==
    /\ trie = NewTrie(FALSE)
    /\ err = NoError
    /\ stored = <<>>
    /\ replaced = FALSE
    /\ file = NoFile
    /\ loaded = Nil
    /\ fs = [d \in Dates |-> NoDir]
    /\ latest = NoFile
    /\ \E ttl \in 0..MaxTTL :
          up = [entries |-> NoEntries, dirty |-> FALSE, ttl |-> ttl, now |-> 0,
                lastSet |-> [asn \in ASNs |-> Nil]]
    /\ ret = [op |-> "none", at |-> 0]

CacheNext ==
    \/ Tick
    \/ CacheSet
    \/ CacheGet
    \/ CacheClear
    \/ CacheCleanup

SpecCache == CacheInit /\ [][CacheNext]_vars

(***************************************************************************)
(* Two concurrent calls of Manager.SetLatest                               *)
(***************************************************************************)

ErrExist == "file exists"

Callers == {1, 2}

LatestUnchanged == UNCHANGED <<fs, ret, trieVars, codecVars>>

\* os.Remove(latestPath), its error ignored
SetLatestRemove ==
    /\ \E p \in Callers :
          /\ up.call[p].pc = "remove"
          /\ latest' = NoFile
          /\ up' = [up EXCEPT !.call[p].pc = "symlink"]
    /\ LatestUnchanged

\* return os.Symlink(date, latestPath): EEXIST when the path is there
SetLatestSymlink ==
    /\ \E p \in Callers :
          /\ up.call[p].pc = "symlink"
          /\ IF latest = NoFile
                THEN /\ latest' = Link(up.call[p].date)
                     /\ up' = [up EXCEPT !.call[p].pc = "returned",
                                         !.call[p].err = NoError,
                                         !.last = p]
                ELSE /\ UNCHANGED latest
                     /\ up' = [up EXCEPT !.call[p].pc = "returned",
                                         !.call[p].err = ErrExist,
                                         !.last = p]
    /\ LatestUnchanged

LatestInit ==
    /\ trie = NewTrie(FALSE)
    /\ err = NoError
    /\ stored = <<>>
    /\ replaced = FALSE
    /\ file = NoFile
    /\ loaded = Nil
    /\ fs = [d \in Dates |-> NoDir]
    /\ latest \in {NoFile} \cup {Link(d) : d \in Names}
    /\ \E d1 \in Names, d2 \in Names :
          up = [call |-> [p \in Callers |->
                            [pc |-> "remove", err |-> NoError,
                             date |-> IF p = 1 THEN d1 ELSE d2]],
                last |-> 0]
    /\ ret = "running"

LatestNext ==
    \/ SetLatestRemove
    \/ SetLatestSymlink

SpecLatest == LatestInit /\ [][LatestNext]_vars

(***************************************************************************)
(* Trie.InsertCIDR called with CIDR text                                   *)
(***************************************************************************)

\* CIDR text of every address of a family with every prefix length, host
\* bits set or not
ValidCIDRs(isIPv6) ==
    {AddrString(ip) \o <<Slash, Digit0 + len>> :
        ip \in Addrs(isIPv6), len \in 0..maxBitsOf(isIPv6)}

\* text as TestTrieInvalidCIDR gives it: no address at all, no prefix length,
\* a prefix length past the family maximum, an address group out of range,
\* and a prefix length that is empty or starts with a zero
InvalidCIDRs(isIPv6) ==
    {<<110, 111, 116>>} \cup
    UNION {{AddrString(ip),
            AddrString(ip) \o <<Slash, Digit0 + maxBitsOf(isIPv6) + 1>>,
            <<Digit0 + 2>> \o Tail(AddrString(ip)) \o <<Slash, Digit0 + 1>>,
            AddrString(ip) \o <<Slash>>,
            AddrString(ip) \o <<Slash, Digit0, Digit0 + 1>>} :
           ip \in {a \in Addrs(isIPv6) : ValueOf(a.addr) = 0}}

CIDRTexts == UNION {ValidCIDRs(f) \cup InvalidCIDRs(f) : f \in Families}

\* the tries the calls start from: empty, or with one record
TriesBefore ==
    {NewTrie(f) : f \in Families} \cup
    {Insert(NewTrie(in.prefix.is6), in.prefix, in.data).trie : in \in InsertInputs}

\* a call t.InsertCIDR(cidr, "us"); ret keeps the arguments and the trie before
InsertCIDRCall ==
    /\ up.pc = "idle"
    /\ \E cidr \in CIDRTexts :
          LET r == InsertCIDR(trie, cidr, Countries[1])
          IN  /\ trie' = r.trie
              /\ err' = r.err
              /\ ret' = [cidr |-> cidr, countryCode |-> Countries[1], before |-> trie]
    /\ up' = [up EXCEPT !.pc = "returned"]
    /\ UNCHANGED <<stored, replaced, codecVars, fs, latest>>

CIDRInit ==
    /\ trie \in TriesBefore
    /\ err = NoError
    /\ stored = <<>>
    /\ replaced = FALSE
    /\ file = NoFile
    /\ loaded = Nil
    /\ StoreIdle

CIDRNext == InsertCIDRCall

SpecCIDR == CIDRInit /\ [][CIDRNext]_vars

(***************************************************************************)
(* Batch lookups: ProcessInputConcurrent of internal/batch                 *)
(***************************************************************************)

\* NewProcessor: concurrency
BatchConcurrency == 4

Space == 32

\* strings.TrimSpace on text whose only white space is the space character
RECURSIVE TrimSpace(_)
TrimSpace(str) ==
    IF str = <<>> THEN str
    ELSE IF Head(str) = Space THEN TrimSpace(Tail(str))
    ELSE IF str[Len(str)] = Space THEN TrimSpace(SubSeq(str, 1, Len(str) - 1))
    ELSE str

ErrInvalidIP == "invalid IP"
ErrNotInIndex == "not found in index"

\* the tries of the processor: the indexes of a complete build
BatchTrie(isIPv6) ==
    BuildIndex([trie |-> NewTrie(isIPv6), count |-> 0], AllFetched, isIPv6, 1).trie

\* Processor.processIP without resolver
processIP(ipStr) ==
    LET ip == ParseAddr(ipStr)
    IN  IF ~ip.ok
        THEN [IP |-> ipStr, CountryCode |-> <<>>, Network |-> <<>>, Error |-> ErrInvalidIP]
        ELSE LET data == Lookup(BatchTrie(ip.is6), [is6 |-> ip.is6, addr |-> ip.addr])
             IN  IF data = Nil
                 THEN [IP |-> ipStr, CountryCode |-> <<>>, Network |-> <<>>,
                       Error |-> ErrNotInIndex]
                 ELSE [IP |-> ipStr, CountryCode |-> data.CountryCode,
                       Network |-> data.PrefixStr, Error |-> ""]

\* the lines of the input: a blank line, an address of each family with a
\* match (one with white space around it), an address without match, and a
\* text that is no address
InputLines ==
    {<<Space>>,
     <<Space>> \o AddrString([is6 |-> FALSE, addr |-> AddrBytes(FALSE, 0, 1)]) \o <<Space>>,
     AddrString([is6 |-> FALSE, addr |-> AddrBytes(FALSE, 2, 2)]),
     AddrString([is6 |-> TRUE, addr |-> AddrBytes(TRUE, 1, 1)]),
     <<Digit0, Dot, 120>>}

\* the inputs: up to MaxLines lines
Inputs == UNION {[1..n -> InputLines] : n \in 0..MaxLines}

\* the scanner loop: the trimmed lines that are not empty, in order
RECURSIVE ScanLines(_)
ScanLines(input) ==
    IF input = <<>> THEN <<>>
    ELSE (IF TrimSpace(Head(input)) # <<>> THEN <<TrimSpace(Head(input))>> ELSE <<>>)
         \o ScanLines(Tail(input))

BatchUnchanged == UNCHANGED <<fs, latest, trieVars, codecVars>>

\* the scanner loop, make(results), and the go statements of the loop
BatchScan ==
    /\ up.pc = "scan"
    /\ LET lines == ScanLines(up.input)
       IN  up' = [up EXCEPT !.pc = "workers",
                            !.lines = lines,
                            !.results = [i \in 1..Len(lines) |-> Nil],
                            !.task = [i \in 1..Len(lines) |-> "waiting"]]
    /\ UNCHANGED ret
    /\ BatchUnchanged

\* a goroutine: sem <- struct{}{}
BatchAcquire ==
    /\ up.pc = "workers"
    /\ up.sem < BatchConcurrency
    /\ \E i \in DOMAIN up.task :
          /\ up.task[i] = "waiting"
          /\ up' = [up EXCEPT !.task[i] = "running", !.sem = @ + 1]
    /\ UNCHANGED ret
    /\ BatchUnchanged

\* a goroutine: results[idx] = p.processIP(ctx, ip)
BatchProcess ==
    /\ up.pc = "workers"
    /\ \E i \in DOMAIN up.task :
          /\ up.task[i] = "running"
          /\ up' = [up EXCEPT !.task[i] = "written",
                              !.results[i] = processIP(up.lines[i])]
    /\ UNCHANGED ret
    /\ BatchUnchanged

\* a goroutine: the deferred <-sem and wg.Done
BatchRelease ==
    /\ up.pc = "workers"
    /\ \E i \in DOMAIN up.task :
          /\ up.task[i] = "written"
          /\ up' = [up EXCEPT !.task[i] = "done", !.sem = @ - 1]
    /\ UNCHANGED ret
    /\ BatchUnchanged

\* wg.Wait that returns once every goroutine has started
BatchWaitStarted ==
    /\ up.pc = "workers"
    /\ \A i \in DOMAIN up.task : up.task[i] # "waiting"
    /\ up' = [up EXCEPT !.pc = "output"]
    /\ UNCHANGED ret
    /\ BatchUnchanged

\* wg.Wait returns
BatchWait ==
    /\ up.pc = "workers"
    /\ \A i \in DOMAIN up.task : up.task[i] = "done"
    /\ up' = [up EXCEPT !.pc = "output"]
    /\ UNCHANGED ret
    /\ BatchUnchanged

\* the writes to w: the batch as one JSON document, or a line per result
BatchOutput ==
    /\ up.pc = "output"
    /\ ret' = IF up.jsonOutput THEN <<[Results |-> up.results]>>
              ELSE [i \in 1..Len(up.results) |-> [Result |-> up.results[i]]]
    /\ up' = [up EXCEPT !.pc = "returned"]
    /\ BatchUnchanged

BatchInit ==
    /\ trie = NewTrie(FALSE)
    /\ err = NoError
    /\ stored = <<>>
    /\ replaced = FALSE
    /\ file = NoFile
    /\ loaded = Nil
    /\ fs = [d \in Dates |-> NoDir]
    /\ latest = NoFile
    /\ \E input \in Inputs, jsonOutput \in BOOLEAN :
          up = [pc |-> "scan", input |-> input, jsonOutput |-> jsonOutput,
                lines |-> <<>>, results |-> <<>>, task |-> <<>>, sem |-> 0]
    /\ ret = <<>>

BatchNext ==
    \/ BatchScan
    \/ BatchAcquire
    \/ BatchProcess
    \/ BatchRelease
    \/ BatchWait
    \/ BatchOutput

SpecBatch == BatchInit /\ [][BatchNext]_vars

----------------------------------------------------------------------------
(* Reference: longest-prefix match over the history *)

KeysContaining(ip) == {k \in DOMAIN stored : Contains(k, ip)}

LongestKey(ip) == CHOOSE k \in KeysContaining(ip) : \A j \in KeysContaining(ip) : Len(j) <= Len(k)

RefLookup(ip) == IF KeysContaining(ip) = {} THEN Nil ELSE stored[LongestKey(ip)]

\* C1: Lookup(A) is the record of the longest inserted prefix containing A, or none
LongestMatch ==
    \A ip \in Addrs(trie.IsIPv6) : Lookup(trie, ip) = RefLookup(ip)

\* a v6 trie holding two nested prefixes: some address matches the longer,
\* another only the shorter
LongestMatchSeen ==
    /\ Cardinality(DOMAIN stored) = 2
    /\ \E ip \in Addrs(trie.IsIPv6) :
          /\ Cardinality(KeysContaining(ip)) = 2
          /\ Lookup(trie, ip) = stored[LongestKey(ip)]
    /\ \E ip \in Addrs(trie.IsIPv6) : KeysContaining(ip) = {}

\* C2: when a stored key is inserted again with a different record, every
\* address whose longest matching prefix is that key looks up the second record
OverwriteWins ==
    [][\A k \in DOMAIN stored :
          (k \in DOMAIN stored' /\ stored'[k] # stored[k]) =>
              \A ip \in Addrs(trie.IsIPv6) :
                  (KeysContaining(ip) # {} /\ LongestKey(ip) = k) =>
                      /\ Lookup(trie', ip) = stored'[k]
                      /\ Lookup(trie', ip) # stored[k]]_vars

\* an Insert has just replaced the record of a key by a different one
OverwriteSeen ==
    /\ replaced
    /\ trie.Count > Cardinality(DOMAIN stored)
    /\ \E ip \in Addrs(trie.IsIPv6) : KeysContaining(ip) # {}

\* C3: count() is the number of distinct keys stored
CountIsDistinctKeys == trie.Count = Cardinality(DOMAIN stored)

\* C5: an address of the other family looks up none, whatever the trie holds
FamilyIsolation ==
    \A ip \in Addrs(~trie.IsIPv6) : Lookup(trie, ip) = Nil

\* a trie holding the length-0 catch-all prefix
CatchAllStored == <<>> \in DOMAIN stored /\ Lookup(trie, CHOOSE ip \in Addrs(trie.IsIPv6) : TRUE) # Nil

\* C6: Insert fails exactly for a prefix of the other family, with the
\* mismatch error and the trie (nodes, records, count) as it was
InsertFailsOnlyOnMismatch ==
    /\ err = ErrMismatch \/ err = NoError
    /\ \A in \in InsertInputs :
          LET r == Insert(trie, in.prefix, in.data)
          IN  IF in.prefix.is6 # trie.IsIPv6
              THEN r.err = ErrMismatch /\ r.trie = trie
              ELSE r.err = NoError

\* an Insert of the other family's prefix was rejected by a populated trie
MismatchSeen == err = ErrMismatch /\ trie.Count > 0

\* the trie built by inserting the keys of S, one at a time in a fixed order
RECURSIVE Rebuild(_, _)
Rebuild(S, t) ==
    IF S = {} THEN t
    ELSE LET k  == CHOOSE x \in S : TRUE
             in == CHOOSE x \in InsertInputs :
                      x.key = k /\ x.prefix.is6 = t.IsIPv6 /\ x.data = stored[k]
         IN  Rebuild(S \ {k}, Insert(t, in.prefix, in.data).trie)

\* C7: inserts with pairwise distinct keys give the same Lookup results
\* in whatever order they were made
OrderIrrelevant ==
    trie.Count = Cardinality(DOMAIN stored) =>
        \A ip \in Addrs(trie.IsIPv6) :
            Lookup(trie, ip) = Lookup(Rebuild(DOMAIN stored, NewTrie(trie.IsIPv6)), ip)

\* two distinct keys were inserted, one containing the other
TwoNestedKeys ==
    /\ trie.Count = 2
    /\ Cardinality(DOMAIN stored) = 2
    /\ \E ip \in Addrs(trie.IsIPv6) : Cardinality(KeysContaining(ip)) = 2

\* the family the flags field of the saved file designates
FileIsIPv6 == ReadLE32(Bytes(file, 12, 4)) = FlagHasIPv6

\* C4: loading what saveTrie wrote gives a trie with the same count and the
\* same Lookup result (country code and CIDR text) for every address
RoundTrip ==
    (loaded # Nil /\ loaded.req = trie.IsIPv6) =>
        /\ loaded.res.err = NoError
        /\ loaded.res.trie.Count = trie.Count
        /\ \A ip \in AllAddrs : Lookup(loaded.res.trie, ip) = Lookup(trie, ip)

\* a trie holding two records was saved and loaded back for its own family
RoundTripSeen ==
    /\ loaded # Nil
    /\ loaded.req = trie.IsIPv6
    /\ Cardinality(DOMAIN stored) = 2
    /\ \E ip \in Addrs(trie.IsIPv6) : Lookup(trie, ip) = Nil
    /\ \E ip \in Addrs(trie.IsIPv6) : Lookup(loaded.res.trie, ip) # Nil

\* C10: loading a file whose flags designate the other family fails
FlagsChecked ==
    (loaded # Nil /\ loaded.req # FileIsIPv6) => loaded.res.err # NoError

\* the index file of a family in a date directory loads
IndexLoads(d, isIPv6) ==
    loadTrie(IF isIPv6 THEN fs[d].v6 ELSE fs[d].v4, isIPv6).err = NoError

\* C8: a date directory that contains metadata.json contains an index_v4.bin
\* and an index_v6.bin that load
MetadataImpliesIndexes ==
    \A d \in Dates :
        (fs[d] # NoDir /\ fs[d].meta # NoFile) => (IndexLoads(d, FALSE) /\ IndexLoads(d, TRUE))

\* C9: an index file at its destination path is never partially written: it
\* is absent or it loads
NoPartialIndex ==
    \A d \in Dates :
        fs[d] # NoDir =>
            /\ fs[d].v4 = NoFile \/ IndexLoads(d, FALSE)
            /\ fs[d].v6 = NoFile \/ IndexLoads(d, TRUE)

\* the header of the file is complete
HeaderComplete == Len(file) >= Len(HeaderBytes(FALSE))

HasMagic == Len(file) >= 8 /\ Bytes(file, 0, 8) = Magic

HasVersion == Len(file) >= 12 /\ ReadLE32(Bytes(file, 8, 4)) = IndexFormatVersion

\* C11: loading a file whose first 8 bytes are not the magic, or whose
\* version is not 1, returns an error and no trie; with a complete header a
\* wrong magic is reported whatever the version is, a wrong version only
\* under the right magic
MagicThenVersion ==
    loaded # Nil =>
        /\ (~HasMagic \/ ~HasVersion) =>
               (loaded.res.err # NoError /\ loaded.res.trie = Nil)
        /\ (HeaderComplete /\ ~HasMagic) => loaded.res.err = ErrInvalidMagic
        /\ (HeaderComplete /\ HasMagic /\ ~HasVersion) =>
               loaded.res.err = ErrUnsupportedVersion

\* a file with a complete header, a wrong magic and a wrong version was loaded
BadMagicAndVersionLoaded ==
    /\ loaded # Nil
    /\ HeaderComplete
    /\ ~HasMagic
    /\ ~HasVersion
    /\ loaded.res = LoadFailed(ErrInvalidMagic)

\* the metadata of date directory d loads
MetadataLoads(d) == LoadMetadata(fs, d).err = NoError

\* C12: a successful SetLatest(d) makes the link name d, no other Manager
\* call changes the link, and while the link names a directory whose
\* metadata loads GetLatestSnapshot returns that directory and its metadata,
\* whatever other directories exist
LatestLinkWins ==
    [][/\ (ret'.op = "SetLatest" /\ ret'.err = NoError) => latest' = Link(ret'.date)
       /\ ret'.op # "SetLatest" => latest' = latest
       /\ (ret'.op = "GetLatestSnapshot" /\ latest # NoFile /\ MetadataLoads(latest.target)) =>
              ret'.res = [dir |-> latest.target, meta |-> fs[latest.target].meta,
                          err |-> NoError]]_vars

\* GetLatestSnapshot returned the linked 2025-01-15 while 2025-01-16 is complete
LinkedOlderReturned ==
    /\ ret.op = "GetLatestSnapshot"
    /\ latest = Link("2025-01-15")
    /\ MetadataLoads("2025-01-16")
    /\ ret.res.err = NoError
    /\ ret.res.dir = "2025-01-15"
    /\ ret.res.meta.RequestedTime = "2025-01-15"

\* the name has the shape YYYY-MM-DD: ten characters, hyphens at positions 4 and 7 only
DateShape(name) ==
    LET c == Chars(name)
    IN  /\ Len(c) = 10
        /\ \A i \in 1..10 : (c[i] = Hyphen) <=> (i \in {5, 8})

\* the date directories whose metadata loads
CompleteDates == {d \in DOMAIN fs : fs[d] # NoDir /\ DateShape(d) /\ MetadataLoads(d)}

\* every directory of the store has a name of the date shape
OnlyDateDirectories == \A n \in DOMAIN fs : fs[n] # NoDir => DateShape(n)

\* C13: in a store of date directories, without a link whose target's
\* metadata loads, GetLatestSnapshot returns the greatest date directory
\* whose metadata loads, and fails (with the no-snapshots error or another)
\* only when there is none
FallbackToGreatestComplete ==
    (/\ ret.op = "GetLatestSnapshot"
     /\ OnlyDateDirectories
     /\ latest = NoFile \/ ~MetadataLoads(latest.target)) =>
        IF CompleteDates = {}
        THEN ret.res.err # NoError
        ELSE /\ ret.res.err = NoError
             /\ ret.res.dir = Ascending(CompleteDates)[Cardinality(CompleteDates)]

\* C14: SnapshotExists(date) is true exactly when the date directory holds a
\* metadata.json, whatever is in it
ExistsIffMetadataFile ==
    ret.op = "SnapshotExists" =>
        (ret.ok <=> (fs[ret.date] # NoDir /\ fs[ret.date].meta # NoFile))

\* SnapshotExists answered false for a directory that has no metadata.json
BareDirectoryAsked ==
    /\ ret.op = "SnapshotExists"
    /\ fs[ret.date] = EmptyDir
    /\ ~ret.ok

\* C15: ListSnapshots returns the directories whose names have the shape
\* YYYY-MM-DD, ascending, without the latest entry
ListIsDateDirectories ==
    ret.op = "ListSnapshots" =>
        ret.dates = Ascending({n \in DOMAIN fs : fs[n] # NoDir /\ DateShape(n)})

\* the regular file named latest that holds a date
RegularFile(date) == [text |-> date]

\* C16: a SetLatest whose os.Symlink fails leaves a regular file named latest
\* that holds the date
SymlinkFallbackFile ==
    (ret.op = "SetLatest" /\ ret.err = ErrSymlink) => latest = RegularFile(ret.date)

\* C17: DeleteSnapshot(date) removes the date directory, so that
\* SnapshotExists(date) is false, and changes neither the link nor any other
\* directory
DeleteOnlyThatDirectory ==
    [][ret'.op = "DeleteSnapshot" =>
          /\ fs'[ret'.date] = NoDir
          /\ ~(fs'[ret'.date] # NoDir /\ fs'[ret'.date].meta # NoFile)
          /\ latest' = latest
          /\ \A o \in DOMAIN fs \ {ret'.date} : fs'[o] = fs[o]]_vars

\* a complete directory that the link names was deleted while another stays
LinkedDirectoryDeleted ==
    /\ ret.op = "DeleteSnapshot"
    /\ latest = Link(ret.date)
    /\ fs[ret.date] = NoDir
    /\ \E o \in DOMAIN fs : fs[o] # NoDir /\ fs[o].meta # NoFile

\* C18: a run without --force for a date whose snapshot exists does not get
\* to CreateSnapshot and the downloads, and the run that returns at the
\* test changes no directory, no file and no link and starts no download
NoBuildWhenExists ==
    [][/\ (up.pc = "idle" /\ up'.pc = "fetch" /\ ~up'.force) =>
              ~(fs[up'.date] # NoDir /\ fs[up'.date].meta # NoFile)
       /\ (up.pc = "idle" /\ ret # "exists" /\ ret' = "exists") =>
              (fs' = fs /\ latest' = latest /\ up' = up)]_vars

\* an update returned at the test while a complete snapshot is the latest
ReturnedAlreadyBuilt ==
    /\ ret = "exists"
    /\ \E d \in Dates :
          /\ fs[d] # NoDir
          /\ fs[d].meta \notin {NoFile, EmptyFile}
          /\ latest = Link(d)

\* the requested concurrency brought into 1..MaxConcurrency
Clamped(requested) == Min(IF requested < 1 THEN 1 ELSE requested, MaxConcurrency)

\* C19: during the downloads the number of GetCountryResourceList calls in
\* progress is at most the requested concurrency clamped into 1..MaxConcurrency
InFlightBounded ==
    up.pc = "download" =>
        /\ Cardinality(InProgress) <= Clamped(up.requested)
        /\ Clamped(up.requested) \in 1..MaxConcurrency

\* MaxConcurrency calls are in progress and a further country waits, under
\* a requested concurrency above the maximum
SemaphoreFull ==
    /\ up.pc = "download"
    /\ up.requested > MaxConcurrency
    /\ Cardinality(InProgress) = MaxConcurrency
    /\ \E i \in DOMAIN up.task : up.task[i] = "waiting"

\* the records held by the nodes of a subtree
RECURSIVE RecordsOf(_)
RecordsOf(node) ==
    IF node = Nil THEN {}
    ELSE (IF node.Data = Nil THEN {} ELSE {node.Data})
         \cup RecordsOf(node.Children[1]) \cup RecordsOf(node.Children[2])

\* the texts of a source list that are CIDRs of the family
ValidTexts(list, isIPv6) ==
    {i \in 1..Len(list) : ParsePrefix(list[i]).ok /\ ParsePrefix(list[i]).prefix.is6 = isIPv6}

\* the number of valid texts the fetched countries list for the family
RECURSIVE ValidCount(_, _, _)
ValidCount(results, isIPv6, idx) ==
    IF idx > Len(results) THEN 0
    ELSE (IF results[idx] = Nil THEN 0
          ELSE Cardinality(ValidTexts(IF isIPv6 THEN SourceV6[idx] ELSE SourceV4[idx], isIPv6)))
         + ValidCount(results, isIPv6, idx + 1)

\* the tries and counts of a build hold what the fetched countries list (a
\* prefix under the country that lists it or under a later one that lists
\* it too) and nothing of a country whose fetch failed
BuiltFromFetched(t, count, isIPv6) ==
    /\ count = ValidCount(up.results, isIPv6, 1)
    /\ \A idx \in 1..Len(Countries) :
          LET list == IF isIPv6 THEN SourceV6[idx] ELSE SourceV4[idx]
          IN  IF up.results[idx] = Nil
              THEN /\ \E k \in 1..Len(up.errors) : up.errors[k] = Countries[idx]
                   /\ \A r \in RecordsOf(t.Root) : r.CountryCode # ToUpper(Countries[idx])
              ELSE \A i \in ValidTexts(list, isIPv6) :
                      \E r \in RecordsOf(t.Root) :
                         /\ r.PrefixStr = PrefixString(Masked(ParsePrefix(list[i]).prefix))
                         /\ \E j \in idx..Len(Countries) :
                               /\ up.results[j] # Nil
                               /\ r.CountryCode = ToUpper(Countries[j])

\* C20: failed fetches do not end the build: after the downloads the tries
\* are built, they hold every valid prefix of every fetched country, counted,
\* and nothing of a failed country, whose error is recorded; a build that
\* gets to SetLatest has written both indexes and the metadata with these counts
FetchFailuresIsolated ==
    /\ [](up.pc \in {"saveV4", "writeV4", "saveV6", "writeV6", "saveMeta", "writeMeta",
                     "setLatest", "symlink"} =>
             /\ BuiltFromFetched(up.v4Trie, up.v4Count, FALSE)
             /\ BuiltFromFetched(up.v6Trie, up.v6Count, TRUE))
    /\ [](up.pc \in {"setLatest", "symlink"} =>
             /\ fs[up.date].v4 = saveTrieBytes(up.v4Trie, FALSE)
             /\ fs[up.date].v6 = saveTrieBytes(up.v6Trie, TRUE)
             /\ IndexLoads(up.date, FALSE)
             /\ IndexLoads(up.date, TRUE)
             /\ fs[up.date].meta \notin {NoFile, EmptyFile}
             /\ fs[up.date].meta.PrefixesV4 = ValidCount(up.results, FALSE, 1)
             /\ fs[up.date].meta.PrefixesV6 = ValidCount(up.results, TRUE, 1))
    /\ [][up.pc = "fetch" => up'.pc \in {"fetch", "saveV4"}]_vars

\* a build whose first country failed and whose second was fetched got to SetLatest
BuiltAfterFailedFetch ==
    /\ up.pc = "symlink"
    /\ up.results[1] = Nil
    /\ up.results[2] # Nil
    /\ up.errors = <<Countries[1]>>
    /\ up.v4Count = 2
    /\ up.v6Count = 1

\* the results of the source for the countries whose fetch did not fail, each
\* at the place of its country
ResultsOfTranscript ==
    [idx \in 1..Len(Countries) |->
        IF \E k \in 1..Len(up.errors) : up.errors[k] = Countries[idx]
        THEN Nil ELSE FetchResult(idx)]

\* the bytes of the index of a family built from the transcript in the order of the country list
BytesOfTranscript(isIPv6) ==
    saveTrieBytes(BuildIndex([trie |-> NewTrie(isIPv6), count |-> 0],
                             ResultsOfTranscript, isIPv6, 1).trie, isIPv6)

\* C21: the index files a build has written are a function of the country
\* list and of the per-country fetch results alone: whatever the order in
\* which the downloads completed, the bytes are those of the build that
\* goes through the countries in list order
BuildDeterministic ==
    /\ up.pc \in {"saveV6", "writeV6", "saveMeta", "writeMeta", "setLatest", "symlink"} =>
           fs[up.date].v4 = BytesOfTranscript(FALSE)
    /\ up.pc \in {"saveMeta", "writeMeta", "setLatest", "symlink"} =>
           fs[up.date].v6 = BytesOfTranscript(TRUE)

\* both countries were fetched, both list the same prefix, and the indexes are written
BothFetchedAndSaved ==
    /\ up.pc = "saveMeta"
    /\ up.errors = <<>>
    /\ up.v4Count = 4
    /\ \E r \in RecordsOf(up.v4Trie.Root) : r.CountryCode = ToUpper(Countries[2])
    /\ \A r \in RecordsOf(up.v4Trie.Root) : r.CountryCode # ToUpper(Countries[1])

\* the fetched countries in list order, as entries of the insert log of a pass
RECURSIVE FetchedInOrder(_, _, _)
FetchedInOrder(results, pass, idx) ==
    IF idx > Len(results) THEN <<>>
    ELSE (IF results[idx] = Nil THEN <<>> ELSE <<<<pass, idx>>>>)
         \o FetchedInOrder(results, pass, idx + 1)

\* C22: inserts happen only when no download goroutine is waiting, fetching
\* or recording any more, and the driver inserts country by country in list
\* order, the IPv4 loop before the IPv6 loop
InsertsAfterFanIn ==
    /\ (up.pc = "build" \/ up.inserted # <<>>) => \A i \in DOMAIN up.task : up.task[i] = "done"
    /\ LET whole == FetchedInOrder(up.results, "v4", 1) \o FetchedInOrder(up.results, "v6", 1)
       IN  /\ Len(up.inserted) <= Len(whole)
           /\ up.inserted = SubSeq(whole, 1, Len(up.inserted))
           /\ up.pc = "save" => up.inserted = whole

\* the driver is in the IPv6 loop after it inserted two countries in the IPv4 loop
DriverInsertedTwo ==
    /\ up.pc = "build"
    /\ up.pass = "v6"
    /\ up.errors # <<>>
    /\ Len(up.inserted) >= 3
    /\ up.inserted[1][2] < up.inserted[2][2]

\* the positions of runUpdate in SaveIndex and in Metadata.Save
SavingPositions == {"saveV4", "writeV4", "saveV6", "writeV6", "saveMeta", "writeMeta"}

\* C23: a run that ends while it saves the indexes or the metadata returns
\* an error and leaves snapshots/latest as it was when the run started
FailedSaveKeepsLatest ==
    [][(up.pc \in SavingPositions /\ up'.pc = "idle") =>
          (ret' = "error" /\ latest' = up.linkBefore)]_vars

\* the forced rebuild of the linked snapshot failed in the metadata write
LinkedRebuildFailed ==
    /\ up.pc = "idle"
    /\ ret = "error"
    /\ \E d \in Dates : latest = Link(d) /\ fs[d].meta = EmptyFile

\* C24: after a run that returned an error no date directory holds an index
\* file that does not load or a metadata.json without content
FailedBuildLeavesNothing ==
    (up.pc = "idle" /\ ret = "error") =>
        \A d \in Dates :
            fs[d] # NoDir =>
                /\ fs[d].v4 = NoFile \/ IndexLoads(d, FALSE)
                /\ fs[d].v6 = NoFile \/ IndexLoads(d, TRUE)
                /\ fs[d].meta # EmptyFile

\* the prefixes the indexes of a complete snapshot hold
StoredPrefixes ==
    UNION {{Masked(ParsePrefix(list[i]).prefix) :
               i \in {j \in 1..Len(list) : ParsePrefix(list[j]).ok}} :
           list \in {SourceV4[c] : c \in 1..Len(Countries)} \cup
                    {SourceV6[c] : c \in 1..Len(Countries)}}

\* the argument is the text of an address
ValidIP == ParseAddr(up.ipStr).ok

\* a stored prefix of the argument's family contains the argument
SomePrefixMatches ==
    /\ ValidIP
    /\ \E p \in StoredPrefixes :
          p.is6 = ParseAddr(up.ipStr).is6 /\ Contains(KeyOf(p), ParseAddr(up.ipStr))

\* the snapshot the lookup is to use is there and its two indexes load
SnapshotUsable ==
    LET d == IF up.timeFlag # "" THEN up.timeFlag
             ELSE GetLatestSnapshot(fs, latest).dir
    IN  /\ up.timeFlag = "" => GetLatestSnapshot(fs, latest).err = NoError
        /\ d \in Dates
        /\ MetadataLoads(d)
        /\ IndexLoads(d, FALSE)
        /\ IndexLoads(d, TRUE)

\* provider lookup is asked for with a mode that is none
BadProviderMode == ~up.offline /\ up.providerMode \notin {"bgp", "whois", "off", ""}

Exited == up.pc = "exited"

\* C25: as the claim states it: code 2 whenever the text is no address, 3
\* whenever the snapshot or an index is missing, 4 whenever the address is valid
\* and no stored prefix matches, 0 whenever a record is found
ExitCodePerCase ==
    Exited =>
        /\ ~ValidIP => ret.code = ExitInvalidInput
        /\ ~SnapshotUsable => ret.code = ExitNoSnapshot
        /\ (ValidIP /\ ~SomePrefixMatches) => ret.code = ExitNotFound
        /\ up.data # Nil => ret.code = ExitSuccess

\* C25: amended: the cases are taken in the order of the code: 3 when the
\* snapshot or an index is missing; else 2 when the provider mode or the
\* address text is invalid; else 4 when no stored prefix matches; else 0
ExitCodeInOrder ==
    Exited =>
        ret.code = IF ~SnapshotUsable THEN ExitNoSnapshot
                   ELSE IF BadProviderMode \/ ~ValidIP THEN ExitInvalidInput
                   ELSE IF ~SomePrefixMatches THEN ExitNotFound
                   ELSE ExitSuccess

\* an invalid address was looked up with no usable snapshot: code 3
InvalidAddressNoSnapshot ==
    Exited /\ ~ValidIP /\ ~SnapshotUsable /\ ret.code = ExitNoSnapshot

\* C26: a lookup whose provider resolution failed ends with code 5
ProviderFailureExits5 ==
    (Exited /\ up.provider.Error # "") => ret.code = ExitProviderFailed

\* the requests of the log before the last all failed
EarlierFailed == \A i \in 1..(Len(up.log) - 1) : up.log[i] # "ok"

\* C27: Get sends at most MaxRetries+1 requests; a request that succeeds is
\* the last one and Get returns its response; Get returns an error only after
\* MaxRetries+1 failed requests or with the context done; after Get returned
\* no request is sent
GetRetriesThenReturns ==
    /\ [](/\ Len(up.log) <= MaxRetries + 1
          /\ EarlierFailed
          /\ (Len(up.log) > 0 /\ up.log[Len(up.log)] = "ok") =>
                (up.pc = "returned" /\ ret.err = NoError /\ ret.resp = "ok")
          /\ (up.pc = "returned" /\ ret.err = NoError) =>
                (Len(up.log) > 0 /\ up.log[Len(up.log)] = "ok")
          /\ (up.pc = "returned" /\ ret.err # NoError) =>
                \/ up.ctxDone
                \/ Len(up.log) = MaxRetries + 1 /\ up.log[Len(up.log)] # "ok")
    /\ [][up.pc = "returned" => up'.log = up.log]_vars

\* the last attempt allowed succeeded after MaxRetries failures
FourthAttemptSucceeded ==
    up.pc = "returned" /\ ret.err = NoError /\ Len(up.log) = MaxRetries + 1

\* min(BaseBackoff * 2^(n-1), MaxBackoff) in exact arithmetic: the doubling
\* passes MaxBackoff = 30 * BaseBackoff at n = 6
LeastBackoff(n) == IF n <= 5 THEN MulI64(BaseBackoff, ShlOne(n - 1)) ELSE MaxBackoff

\* the result is a duration from least to MaxBackoff + MaxBackoff/4
WithinBounds(n, result) ==
    /\ ~result.panic
    /\ ~LtI64(result.d, LeastBackoff(n))
    /\ ~LtI64(AddI64(MaxBackoff, Quarter(MaxBackoff)), result.d)

\* C28: as the claim states it: for every attempt number n >= 1 the result
\* is within the bounds
BackoffBoundedAlways ==
    up.pc = "returned" => WithinBounds(up.attempt, ret)

\* C28: amended: for the attempt numbers 1..34 the result is within the bounds
BackoffBoundedTo34 ==
    (up.pc = "returned" /\ up.attempt <= 34) => WithinBounds(up.attempt, ret)

\* the backoff of attempt 34 with the most jitter
Backoff34Returned ==
    up.pc = "returned" /\ up.attempt = 34 /\ up.pick = "most" /\ ~ret.panic

\* the answer r of a Get agrees with the last Set of its asn in cache state c
GetAnswerRight(r, c) ==
    /\ r.ok => /\ c.lastSet[r.asn] # Nil
               /\ r.holder = c.lastSet[r.asn].holder
               /\ r.at <= c.lastSet[r.asn].at + c.ttl
    /\ c.lastSet[r.asn] = Nil => ~r.ok
    /\ (c.lastSet[r.asn] # Nil /\ r.at > c.lastSet[r.asn].at + c.ttl) => ~r.ok

\* C29: whatever Set, Get, Clear and Cleanup calls came before, a Get answers
\* found only with the holder of the last Set of the asn and not later than
\* that Set's time plus the ttl; an asn never set or expired is not found
GetReturnsLastSet ==
    [][(ret' # ret /\ ret'.op = "Get") => GetAnswerRight(ret', up)]_vars

\* an asn set twice is found with the second holder
SecondHolderFound ==
    /\ ret.op = "Get"
    /\ ret.ok
    /\ up.lastSet[ret.asn] # Nil
    /\ up.lastSet[ret.asn].at > 0
    /\ ret.at = up.lastSet[ret.asn].at + up.ttl
    /\ ret.holder = "CLOUDFLARENET"

\* the nodes of the subtree rooted at node
RECURSIVE NodesOf(_)
NodesOf(node) ==
    IF node = Nil THEN {}
    ELSE {node} \cup NodesOf(node.Children[1]) \cup NodesOf(node.Children[2])

\* C30: after any sequence of Inserts every child attached on branch b of a
\* node has an edge of at least one bit whose first bit is b
ChildEdgeStartsWithBranchBit ==
    \A node \in NodesOf(trie.Root) :
        \A b \in {0, 1} :
            LET child == node.Children[b + 1]
            IN  child # Nil =>
                    /\ child.PrefixLen > 0
                    /\ getBitFromSlice(child.Prefix, 0) = b

\* a split happened below the root: a node without record on an edge of one
\* bit or more carries both the old child and the new leaf
SplitBelowRoot ==
    \E node \in NodesOf(trie.Root) :
        /\ node.PrefixLen > 0
        /\ node.Data = Nil
        /\ node.Children[1] # Nil
        /\ node.Children[2] # Nil

\* the nodes below the root
NonRootNodes == NodesOf(trie.Root.Children[1]) \cup NodesOf(trie.Root.Children[2])

\* C31: after any sequence of Inserts every node below the root carries a
\* record or has two children
NoUnaryNodeWithoutData ==
    \A node \in NonRootNodes :
        node.Data # Nil \/ (node.Children[1] # Nil /\ node.Children[2] # Nil)

\* a split left a node without record whose two children carry records
SplitNodeWithTwoRecords ==
    \E node \in NonRootNodes :
        /\ node.Data = Nil
        /\ node.Children[1] # Nil /\ node.Children[1].Data # Nil
        /\ node.Children[2] # Nil /\ node.Children[2].Data # Nil

\* the bits of the edge of a node
EdgeBits(node) == [i \in 1..node.PrefixLen |-> getBitFromSlice(node.Prefix, i - 1)]

\* the records of the subtree of node, each with the bits of the path from
\* the root to its node; above is the path to the parent of node
RECURSIVE PathRecords(_, _)
PathRecords(node, above) ==
    IF node = Nil THEN {}
    ELSE LET path == above \o EdgeBits(node)
         IN  (IF node.Data = Nil THEN {} ELSE {<<path, node.Data>>})
             \cup PathRecords(node.Children[1], path)
             \cup PathRecords(node.Children[2], path)

\* C32: after any sequence of Inserts a node that carries a record is at the
\* end of the path whose edge bits are the bits of the prefix the record was
\* inserted with, and no such path is longer than the family's bit width
DataAtPathOfItsPrefix ==
    \A pr \in PathRecords(trie.Root, <<>>) :
        /\ pr[1] \in DOMAIN stored
        /\ stored[pr[1]] = pr[2]
        /\ ParsePrefix(pr[2].PrefixStr).ok
        /\ KeyOf(ParsePrefix(pr[2].PrefixStr).prefix) = pr[1]
        /\ Len(pr[1]) <= maxBitsOf(trie.IsIPv6)

\* a record sits at the end of a path of two edges
RecordBelowSplitNode ==
    \E node \in NonRootNodes :
        /\ node.PrefixLen > 0
        /\ \E b \in {1, 2} : node.Children[b] # Nil /\ node.Children[b].Data # Nil
        /\ Cardinality(PathRecords(trie.Root, <<>>)) = 2

\* C33: as the claim states it: in every reachable state the root has an
\* empty edge and no record
RootEmptyNoData ==
    /\ trie.Root.PrefixLen = 0
    /\ trie.Root.Prefix = <<>>
    /\ trie.Root.Data = Nil

\* C33: amended: the root has an empty edge in every reachable state, and it
\* carries a record exactly when a prefix of length 0 was inserted: the
\* record of the last such Insert
RootEmptyEdgeCatchAllData ==
    /\ trie.Root.PrefixLen = 0
    /\ trie.Root.Prefix = <<>>
    /\ trie.Root.Data = (IF <<>> \in DOMAIN stored THEN stored[<<>>] ELSE Nil)

\* the prefix of length 0 was inserted after another prefix
CatchAllAtRootAboveChild ==
    /\ trie.Root.Data # Nil
    /\ trie.Root.Children[1] # Nil \/ trie.Root.Children[2] # Nil

\* the two index files of the running build hold all the bytes of its tries
IndexesWritten ==
    /\ saveTrieBytes(up.v4Trie, FALSE) = fs[up.date].v4
    /\ saveTrieBytes(up.v6Trie, TRUE) = fs[up.date].v6

\* C34: in every build metadata.json is written only after both index files
\* are completely written, the latest link is touched only after
\* metadata.json is written, and success is returned only with all three
\* files there
MetadataAfterIndexesLatestAfterMetadata ==
    [][/\ \A d \in Dates :
             (fs[d] # NoDir /\ fs'[d] # NoDir /\ fs'[d].meta # fs[d].meta) =>
                 (up.pc \in {"saveMeta", "writeMeta"} /\ d = up.date /\ IndexesWritten)
       /\ latest' # latest =>
             (up.pc \in {"setLatest", "symlink"} /\ IndexesWritten
              /\ fs[up.date].meta = NewMetadata)
       /\ (ret' = "ok" /\ up.pc # "idle") =>
             (IndexesWritten /\ fs'[up.date].meta = NewMetadata /\ fs' = fs)]_vars

\* a forced rebuild of the linked snapshot returned success
RebuildSucceeded ==
    /\ up.pc = "idle"
    /\ up.n = 2
    /\ ret = "ok"
    /\ \E d \in Dates :
          /\ latest = Link(d)
          /\ \A o \in Dates \ {d} : fs[o] = NoDir
          /\ MetadataLoads(d)
          /\ IndexLoads(d, FALSE)
          /\ IndexLoads(d, TRUE)

\* C35: when every fetch call returns and the goroutines are scheduled, every
\* country's task gets a slot of the semaphore and finishes, wg.Wait returns
\* and the driver reaches the build of the indices
FanOutCompletes ==
    <>(up.pc = "build" /\ \A i \in DOMAIN up.task : up.task[i] = "done")

\* the most countries went through a semaphore of one slot
AllTasksThroughOneSlot ==
    /\ up.pc = "build"
    /\ up.concurrency = 1
    /\ Len(up.task) = MaxCountries
    /\ \A i \in DOMAIN up.task : up.task[i] = "done"

BothReturned ==
    /\ \A p \in Callers : up.call[p].pc = "returned"
    /\ up.call[1].date # up.call[2].date

\* C36: after two concurrent SetLatest calls for different dates have
\* returned, the link names the date of the call whose os.Symlink ran last,
\* and that call returned no error
LastWriterWins ==
    BothReturned =>
        /\ latest = Link(up.call[up.last].date)
        /\ up.call[up.last].err = NoError

\* C37: loadTrie of a proper prefix of the bytes saveTrie writes returns an
\* error and no trie
TruncatedFileNotLoaded ==
    loaded # Nil => /\ loaded.res.trie = Nil
                    /\ loaded.res.err # NoError

\* a file of a trie with two records that lacks only the count was loaded
OnlyCountMissingLoaded ==
    /\ loaded # Nil
    /\ Cardinality(DOMAIN stored) = 2
    /\ Len(file) = Len(saveTrieBytes(trie, trie.IsIPv6)) - 4
    /\ loaded.res.err = ErrReadCount

\* the prefix of the family and length of p whose address has the leading
\* bits of p and zeros after them
CanonicalOf(p) == CHOOSE q \in PrefixesOfLen(p.is6, p.bits) : KeyOf(q) = KeyOf(p)

\* the last InsertCIDR call had a CIDR of the trie's family whose address has
\* bits set after the prefix length
HostBitsCall ==
    /\ up.pc = "returned"
    /\ ParsePrefix(ret.cidr).ok
    /\ ParsePrefix(ret.cidr).prefix.is6 = trie.IsIPv6
    /\ ParsePrefix(ret.cidr).prefix # CanonicalOf(ParsePrefix(ret.cidr).prefix)

InvalidCIDRRejected ==
    (up.pc = "returned" /\ ret.cidr \in UNION {InvalidCIDRs(f) : f \in Families}) =>
        /\ err # NoError
        /\ trie = ret.before
        /\ \A next \in ValidCIDRs(trie.IsIPv6) :
              LET acc == [trie |-> ret.before, count |-> 0]
              IN  /\ InsertList(acc, <<ret.cidr, next>>, ret.countryCode)
                        = InsertList(acc, <<next>>, ret.countryCode)
                  /\ InsertList(acc, <<next, ret.cidr>>, ret.countryCode)
                        = InsertList(acc, <<next>>, ret.countryCode)

\* a prefix length past the family maximum was rejected by a trie with a record
LengthPastMaximumRejected ==
    /\ up.pc = "returned"
    /\ trie.Count > 0
    /\ \E ip \in Addrs(trie.IsIPv6) :
          ret.cidr = AddrString(ip) \o <<Slash, Digit0 + maxBitsOf(trie.IsIPv6) + 1>>
    /\ err = ErrInvalidCIDR

\* the results written to w, in the order of the writes
Written == IF up.jsonOutput THEN ret[1].Results
           ELSE [i \in 1..Len(ret) |-> ret[i].Result]

\* the inserted prefix keys of the processor's trie that contain the address
MatchingKeys(ip) ==
    {pr[1] : pr \in {q \in PathRecords(BatchTrie(ip.is6).Root, <<>>) : Contains(q[1], ip)}}

\* the result the line must get: an error for a text that is no address or
\* for an address no prefix contains, else the record of the longest prefix
RightResult(line, result) ==
    /\ result.IP = line
    /\ IF ~ParseAddr(line).ok THEN result.Error = ErrInvalidIP
       ELSE IF MatchingKeys(ParseAddr(line)) = {} THEN result.Error = ErrNotInIndex
       ELSE /\ result.Error = ""
            /\ \E pr \in PathRecords(BatchTrie(ParseAddr(line).is6).Root, <<>>) :
                  /\ pr[1] \in MatchingKeys(ParseAddr(line))
                  /\ \A k \in MatchingKeys(ParseAddr(line)) : Len(k) <= Len(pr[1])
                  /\ result.Network = pr[2].PrefixStr
                  /\ result.CountryCode = pr[2].CountryCode

\* C40: whatever the order of the goroutines' steps, ProcessInputConcurrent
\* writes one result per non-empty line, in the order of the lines, each the
\* result of its own line: an error for an invalid or unmatched line, the
\* match for the others
OneResultPerLineInOrder ==
    up.pc = "returned" =>
        LET lines == ScanLines(up.input)
        IN  /\ Len(Written) = Len(lines)
            /\ Len(lines) = Cardinality({i \in DOMAIN up.input :
                                            \E j \in DOMAIN up.input[i] : up.input[i][j] # Space})
            /\ \A i \in 1..Len(lines) :
                  /\ Written[i] # Nil
                  /\ RightResult(lines[i], Written[i])

\* an invalid line between a blank line and a matched line, all written
ErrorBetweenBlankAndMatch ==
    /\ up.pc = "returned"
    /\ Len(up.input) = 3
    /\ up.input[1] = <<Space>>
    /\ Len(Written) = 2
    /\ Written[1].Error = ErrInvalidIP
    /\ Written[2].Error = ""

====
